---- MODULE Spec2Model ----
(***************************************************************************)
(* The metadata HTTP service of hegel: the request handlers of             *)
(* http/api.go (the /v0 router), the legacy EC2 handler and the            *)
(* query-driven handlers, with the path resolution and query evaluation    *)
(* they perform.                                                           *)
(*                                                                         *)
(* A string is a sequence of tokens.  "/" and ":" are always tokens of     *)
(* their own, a decimal digit is a token of its own, and every other       *)
(* token stands for a run of characters that holds none of them.           *)
(***************************************************************************)
EXTENDS Integers, Sequences, FiniteSets, TLC

VARIABLES
    mount,   \* which handler tree answers: "gin", "ginV1", "ec2" or "hegel"
    db,      \* what the hardware source holds for the client address
    phase,   \* "idle", "pending" (request received) or "done" (answered)
    req,     \* the request being served
    route,   \* the handler the router found for the request, "" for none
    resp,    \* the response written so far
    client,  \* the package variable client of the first revision of api.go
    model,   \* the data model Serve was started with
    healthy, \* what the hardware client's IsHealthy reports
    serve    \* the call of Serve: where it stands, its context, its server

vars == <<mount, db, phase, req, route, resp, client, model, healthy, serve>>

\* ------------------------------------------------------------------ bounds

MaxItems == 2      \* disks, and ssh keys, of a record
MaxIfaces == 2     \* network interfaces (addresses) of a record
MaxIndex == 3      \* largest index a request path names

\* ----------------------------------------------------------------- strings

\* A value that may be absent (a nil pointer, a JSON null).
Nil == [nil |-> TRUE, v |-> <<>>]

Some(x) == [nil |-> FALSE, v |-> x]

RECURSIVE Concat(_)
Concat(ss) == IF ss = <<>> THEN <<>> ELSE Head(ss) \o Concat(Tail(ss))

HasPrefix(s, p) == Len(s) >= Len(p) /\ SubSeq(s, 1, Len(p)) = p

TrimPrefix(s, p) == IF HasPrefix(s, p) THEN SubSeq(s, Len(p) + 1, Len(s)) ELSE s

RECURSIVE TrimRight(_, _)
TrimRight(s, c) ==
    IF s # <<>> /\ s[Len(s)] = c THEN TrimRight(SubSeq(s, 1, Len(s) - 1), c) ELSE s

\* A TrimSuffix that trims nothing.
KeepSuffix(s, p) == s

TrimSuffix(s, p) ==
    IF Len(s) >= Len(p) /\ SubSeq(s, Len(s) - Len(p) + 1, Len(s)) = p
    THEN SubSeq(s, 1, Len(s) - Len(p))
    ELSE s

Count(s, c) == Cardinality({i \in 1..Len(s) : s[i] = c})

Occurs(s, sub) == {i \in 1..(Len(s) - Len(sub) + 1) : SubSeq(s, i, i + Len(sub) - 1) = sub}

Contains(s, sub) == Occurs(s, sub) # {}

FirstOf(S) == CHOOSE i \in S : \A j \in S : i <= j

\* strings.Split on a one-token separator: cur is the piece being read.
RECURSIVE SplitFrom(_, _, _, _)
SplitFrom(s, sep, i, cur) ==
    IF i > Len(s) THEN <<cur>>
    ELSE IF s[i] = sep THEN <<cur>> \o SplitFrom(s, sep, i + 1, <<>>)
    ELSE SplitFrom(s, sep, i + 1, Append(cur, s[i]))

Split(s, sep) == SplitFrom(s, sep, 1, <<>>)

RECURSIVE SplitAfter(_, _)
SplitAfter(s, sep) ==
    IF ~Contains(s, sep)
    THEN <<s>>
    ELSE LET i == FirstOf(Occurs(s, sep))
         IN  <<SubSeq(s, 1, i + Len(sep) - 1)>>
                 \o SplitAfter(SubSeq(s, i + Len(sep), Len(s)), sep)

Digits == <<"0", "1", "2", "3", "4", "5", "6", "7", "8", "9">>

IsDigit(c) == \E d \in 1..10 : Digits[d] = c

DigitVal(c) == (CHOOSE d \in 1..10 : Digits[d] = c) - 1

RECURSIVE DigitsVal(_)
DigitsVal(s) ==
    IF s = <<>> THEN 0 ELSE 10 * DigitsVal(SubSeq(s, 1, Len(s) - 1)) + DigitVal(s[Len(s)])

\* strconv.Atoi: an optional sign, then one or more decimal digits.
AtoiMagnitude(s) == IF s # <<>> /\ s[1] \in {"+", "-"} THEN Tail(s) ELSE s

AtoiOK(s) ==
    LET m == AtoiMagnitude(s) IN m # <<>> /\ \A i \in 1..Len(m) : IsDigit(m[i])

Atoi(s) ==
    IF s # <<>> /\ s[1] = "-" THEN 0 - DigitsVal(AtoiMagnitude(s))
    ELSE DigitsVal(AtoiMagnitude(s))

\* The decimal text of an integer (fmt.Sprint, json.Marshal of an int).
RECURSIVE Itoa(_)
Itoa(n) ==
    IF n < 0 THEN <<"-">> \o Itoa(0 - n)
    ELSE IF n < 10 THEN <<Digits[n + 1]>>
    ELSE Itoa(n \div 10) \o <<Digits[(n % 10) + 1]>>

\* fmt.Sprintln(i)
Sprintln(n) == Itoa(n) \o <<"\n">>

\* The lines of a text: the runs between newlines, a final newline closing
\* the last line.
Lines(s) == IF s = <<>> THEN <<>> ELSE Split(TrimSuffix(s, <<"\n">>), "\n")

\* A path built from its segments, each a string.
RECURSIVE Path(_)
Path(segs) == IF segs = <<>> THEN <<>> ELSE <<"/">> \o Head(segs) \o Path(Tail(segs))

\* ----------------------------------------------------------------- records

M1 == <<"aa", ":", "bb", ":", "cc", ":", "dd", ":", "ee", ":", "f1">>
M2 == <<"aa", ":", "bb", ":", "cc", ":", "dd", ":", "ee", ":", "f2">>
M3 == <<"aa", ":", "bb", ":", "cc", ":", "dd", ":", "ee", ":", "f3">>   \* on no record

SeqsUpTo(S, n) == UNION {[1..k -> S] : k \in 0..n}

\* hardware.K8sHardwareDisk, the i-th disk of a record.
Disk(i) == [device |-> <<"/", "dev", "/", "sd">> \o Itoa(i)]

DiskList(n) == [i \in 1..n |-> Disk(i - 1)]

KeyList(n) == [i \in 1..n |-> <<"ssh-rsa", " ", "key">> \o Itoa(i - 1)]

\* hardware.K8sNetworkInterface: one entry per address of an interface.
Interface(mac, family, i) ==
    [mac |-> mac, family |-> family,
     address |-> <<"addr">> \o Itoa(i), netmask |-> <<"mask">> \o Itoa(i)]

InterfaceSeqs ==
    {[i \in DOMAIN ks |-> Interface(ks[i][1], ks[i][2], i - 1)] :
        ks \in SeqsUpTo({M1, M2} \X {4, 6}, MaxIfaces)}

\* .metadata.instance.network.addresses[] of the exported record.
Address(family, public, i) ==
    [address_family |-> family, public |-> public,
     address |-> <<"addr">> \o Itoa(i), netmask |-> <<"mask">> \o Itoa(i),
     gateway |-> <<"gw">> \o Itoa(i)]

AddressSeqs ==
    {[i \in DOMAIN ks |-> Address(ks[i][1], ks[i][2], i - 1)] :
        ks \in SeqsUpTo({4, 6} \X BOOLEAN, MaxIfaces)}

Host == <<"host-", "1">>
Gateway == <<"gw-", "1">>
UserData == <<"#!", "/", "bin", "/", "sh">>
SpotTime == <<"2021-01-01T00", ":", "00", ":", "00Z">>

\* Literal strings for the fields of a record: empty, ending in a newline,
\* with a newline inside, and with a verb of fmt in it.
Literals == {<<>>, <<"\n">>, <<"a", "\n">>, <<"a", "\n", "b">>, <<"%s">>}

\* The exported hardware record, as the handlers decode it.
BaseRecord ==
    [id |-> M1, hostname |-> Host, gateway |-> Gateway, userdata |-> Some(UserData),
     disks |-> DiskList(1), ssh_keys |-> KeyList(1),
     interfaces |-> <<Interface(M1, 4, 0)>>,
     addresses |-> <<Address(4, TRUE, 0)>>,
     spot |-> Nil,
     iqn |-> <<"iqn.", "1">>, plan |-> <<"c3.small">>, facility |-> <<"ewr", "1">>,
     tags |-> <<<<"tag-a">>, <<"tag-b">>>>,
     os |-> [slug |-> <<"ubuntu_", "2", "0">>, distro |-> <<"ubuntu">>,
             version |-> <<"2", "0", ".", "0", "4">>,
             license_state |-> <<"activated">>, image_tag |-> <<"img-", "1">>]]

\* Records that vary what the /v0 router's handlers read.
GinRecords ==
    {[BaseRecord EXCEPT !.disks = DiskList(d), !.ssh_keys = KeyList(k)] :
        d \in 0..MaxItems, k \in 0..MaxItems}
    \cup {[BaseRecord EXCEPT !.disks = DiskList(d), !.ssh_keys = KeyList(k),
                             !.hostname = h, !.gateway = g, !.interfaces = ifs] :
            d \in 0..1, k \in 0..1, h \in {<<>>, Host}, g \in {<<>>, Gateway},
            ifs \in {<<>>, <<Interface(M1, 4, 0)>>}}
    \cup {[BaseRecord EXCEPT !.userdata = u] : u \in {Nil, Some(<<>>), Some(UserData)}}
    \cup {[BaseRecord EXCEPT !.interfaces = ifs] : ifs \in InterfaceSeqs}
    \cup {[BaseRecord EXCEPT !.hostname = l, !.gateway = l, !.userdata = Some(l)] :
            l \in Literals}

\* Records that vary what the legacy handler's queries read.
EC2Records ==
    {[BaseRecord EXCEPT !.spot = sp, !.addresses = as] :
        sp \in {Nil, Some(SpotTime)}, as \in AddressSeqs}
    \cup {[BaseRecord EXCEPT !.userdata = u] : u \in {Nil, Some(<<>>), Some(UserData)}}
    \cup {[BaseRecord EXCEPT !.ssh_keys = KeyList(k),
                             !.tags = [i \in 1..k |-> <<"tag-">> \o Itoa(i)]] : k \in 0..MaxItems}
    \cup {[BaseRecord EXCEPT !.hostname = l, !.plan = l, !.userdata = Some(l),
                             !.spot = Some(l), !.os.image_tag = l] : l \in Literals}

\* Records that vary what the query-driven /v0 handler and the first /v0
\* router read.
HegelRecords ==
    {[BaseRecord EXCEPT !.id = m, !.addresses = as] : m \in {M1, M2}, as \in AddressSeqs}
    \cup {[BaseRecord EXCEPT !.disks = DiskList(d), !.ssh_keys = KeyList(k)] :
            d \in 0..MaxItems, k \in 0..MaxItems}
    \cup {[BaseRecord EXCEPT !.hostname = <<>>, !.userdata = Nil]}

\* What hardware.Client holds for the client address: no hardware, hardware
\* whose Export fails, an export that does not decode, or a record.
Found(r) == [kind |-> "ok", rec |-> r]

Failures == {[kind |-> "none"], [kind |-> "noexport"], [kind |-> "malformed"]}

\* ---------------------------------------------------------------- requests

ClientIP == <<"ip", "1">>

RemoteAddr == ClientIP \o <<":", "4", "2">>

JSONType == "application/json"

Seg(name) == <<name>>

EC2Prefix == <<"/", "2009-04-04">>

V0Prefix == <<"/", "v0">>

IPv4Seg == <<"ipv", "4">>
IPv6Seg == <<"ipv", "6">>

IndexSegs == {Itoa(i) : i \in 0..MaxIndex} \cup {<<"-", "1">>, <<"+", "1">>, <<"x">>, <<"1", "x">>}

\* cancelled: the client gives the request up while the hardware lookup is
\* in flight, which cancels the request's context.
Get(path, accept) ==
    [method |-> "GET", path |-> path, accept |-> accept, remoteAddr |-> RemoteAddr,
     cancelled |-> FALSE]

Accepts == {<<>>, <<JSONType>>}

\* Request paths under the /v0 router.
GinSegs ==
    LET md == <<Seg("v0"), Seg("meta-data")>>
        named == {Seg("disks"), Seg("ssh-public-keys"), Seg("hostname"), Seg("gateway")}
        macs == {M1, M3}
        fams == {IPv4Seg, IPv6Seg}
    IN  {<<Seg("v0")>>, <<Seg("v0"), Seg("user-data")>>, md,
         <<Seg("v0"), Seg("foo")>>, <<Seg("v1"), Seg("meta-data")>>}
        \cup {md \o <<s>> : s \in named \cup macs}
        \cup {md \o <<s, i>> : s \in {Seg("disks"), Seg("ssh-public-keys")}, i \in IndexSegs}
        \cup {md \o <<Seg("hostname"), Seg("x")>>, md \o <<Seg("disks"), Seg("0"), Seg("ip")>>}
        \cup {md \o <<m, f>> : m \in macs, f \in fams \cup {<<"ipv", "5">>}}
        \cup {md \o <<m, f, i>> : m \in macs, f \in fams, i \in IndexSegs}
        \cup {md \o <<m, f, i, l>> : m \in macs, f \in fams, i \in IndexSegs,
                                     l \in {Seg("ip"), Seg("netmask")}}
        \cup {md \o <<M1, IPv4Seg, Seg("0"), Seg("gateway")>>,
              md \o <<M1, IPv4Seg, Seg("0"), Seg("ip"), Seg("x")>>}

GinPaths ==
    {<<"/">>} \cup {Path(p) : p \in GinSegs}
    \cup {Path(p) \o <<"/">> : p \in {<<Seg("v0"), Seg("meta-data")>>,
                                      <<Seg("v0"), Seg("meta-data"), Seg("disks")>>,
                                      <<Seg("v0"), Seg("nope")>>}}

\* The paths Serve registers on the mux besides the metadata prefix: the
\* three service routes, the subscriptions and the custom endpoint.
ServicePaths ==
    {Path(<<Seg("metrics")>>), Path(<<Seg("_packet"), Seg("healthcheck")>>),
     Path(<<Seg("_packet"), Seg("version")>>), Path(<<Seg("subscriptions")>>),
     Path(<<Seg("subscriptions"), Seg("x")>>), Path(<<Seg("metadata")>>)}

OddRequests(path) ==
    {[Get(path, <<>>) EXCEPT !.method = "POST"],
     [Get(path, <<>>) EXCEPT !.remoteAddr = ClientIP],
     [Get(path, <<>>) EXCEPT !.remoteAddr = <<>>],
     [Get(path, <<>>) EXCEPT !.remoteAddr = <<"ip", "2", ":", "4", "2">>],
     [Get(path, <<>>) EXCEPT !.cancelled = TRUE]}

GinRequests ==
    {Get(p, a) : p \in GinPaths, a \in Accepts}
    \cup {Get(Path(<<Seg("v0"), Seg("meta-data")>>), a) :
            a \in {<<"text/plain">>, <<"text/html", JSONType>>,
                   <<"application/json, text/plain">>}}
    \cup OddRequests(V0Prefix \o Path(<<Seg("meta-data"), Seg("hostname")>>))
    \cup {Get(EC2Prefix \o Path(<<Seg("meta-data"), Seg("hostname")>>), <<>>)}
    \cup {Get(p, <<>>) : p \in ServicePaths}

\* Request paths under the legacy prefix: the paths of ec2Filters, some
\* with a trailing slash, and paths the table does not hold.
EC2DeclaredSegs ==
    LET md == <<Seg("meta-data")>>
        os == md \o <<Seg("operating-system")>>
    IN  {<<>>, <<Seg("user-data")>>, md, os, md \o <<Seg("spot")>>,
         md \o <<Seg("spot"), Seg("termination-time")>>,
         os \o <<Seg("license_activation"), Seg("state")>>}
        \cup {md \o <<Seg(n)>> : n \in {"instance-id", "hostname", "local-hostname", "iqn", "plan",
                                        "facility", "tags", "public-keys", "public-ipv4",
                                        "public-ipv6", "local-ipv4"}}
        \cup {os \o <<Seg(n)>> : n \in {"slug", "distro", "version", "license_activation",
                                        "image_tag"}}

EC2UndeclaredSegs ==
    LET md == <<Seg("meta-data")>>
    IN  {<<Seg("foo")>>, md \o <<Seg("foo")>>, md \o <<Seg("disks")>>,
         md \o <<Seg("hostname"), Seg("x")>>, md \o <<Seg("spot"), Seg("foo")>>,
         <<Seg("user-data"), Seg("meta-data")>>, md \o <<Seg("operating-system"), Seg("state")>>,
         md \o <<M1>>, <<Seg("meta-data"), Seg("ssh-public-keys"), Seg("0")>>}

EC2Paths ==
    {EC2Prefix \o Path(p) : p \in EC2DeclaredSegs \cup EC2UndeclaredSegs}
    \cup {EC2Prefix \o Path(p) \o <<"/">> :
            p \in {<<>>, <<Seg("meta-data")>>, <<Seg("meta-data"), Seg("hostname")>>,
                   <<Seg("meta-data"), Seg("foo")>>}}
    \cup {<<"/">>, Path(<<Seg("meta-data")>>), Path(<<Seg("2009-04-04x")>>)}

EC2Requests ==
    {Get(p, <<>>) : p \in EC2Paths}
    \cup {Get(EC2Prefix \o Path(<<Seg("meta-data")>>), <<JSONType>>)}
    \cup OddRequests(EC2Prefix \o Path(<<Seg("meta-data"), Seg("hostname")>>))
    \cup OddRequests(EC2Prefix \o Path(<<Seg("nope")>>))
    \cup {Get(V0Prefix \o Path(<<Seg("meta-data"), Seg("hostname")>>), <<>>)}
    \cup {Get(p, <<>>) : p \in ServicePaths}

\* Request paths for the query-driven /v0 handler: those of the router, the
\* other paths of hegelFilters, and paths neither declares.
HegelPaths ==
    GinPaths
    \cup {V0Prefix \o Path(<<Seg("meta-data"), Seg(n)>>) :
            n \in {"public-ipv4", "public-ipv6", "local-ipv4", "netmask", "foo"}}
    \cup {V0Prefix \o Path(p) :
            p \in {<<M1>>, <<Seg("foo"), Seg("disks"), Seg("0")>>,
                   <<Seg("foo"), Seg("ssh-public-keys"), Seg("0")>>,
                   <<Seg("foo"), M1>>, <<Seg("foo"), M1, IPv4Seg>>,
                   <<Seg("meta-data"), M1, IPv4Seg, Seg("0"), Seg("ip"), Seg("x"), Seg("y")>>,
                   <<Seg("meta-data"), Seg("hostname"), M1>>,
                   <<Seg("meta-data"), <<"aa", ":", "bb", ":", "cc", ":", "dd">>,
                     <<"ee", ":", "f1">>>>,
                   <<Seg("meta-data"), M1, IPv4Seg, <<"0", ":", "1">>, Seg("ip")>>}}

HegelRequests ==
    {Get(p, a) : p \in HegelPaths, a \in Accepts}
    \cup OddRequests(V0Prefix \o Path(<<Seg("meta-data"), Seg("hostname")>>))

\* Requests for the mux of the custom endpoints.
CustomRequests ==
    {Get(Path(<<Seg("metadata")>>), <<>>), Get(Path(<<Seg("metadata"), Seg("instance")>>), <<>>)}
    \cup OddRequests(Path(<<Seg("metadata")>>))

\* Requests for the first /v0 router: the paths its macHandler serves.
GinV1Requests == {Get(V0Prefix \o Path(<<Seg("meta-data"), m>>), <<>>) : m \in {M1, M3}}

\* --------------------------------------------------------------- responses

\* A response before the handler writes: net/http answers 200 with an empty
\* body when the handler returns without writing.  With the response goes
\* what the handler did for it: the lookups it made, in order, and
\* whether it went on to read the record it got.
NoResponse ==
    [status |-> 200, body |-> <<>>, ctype |-> "", written |-> FALSE,
     lookups |-> <<>>, evaluated |-> FALSE]

TextPlain == "text/plain; charset=utf-8"
JSONCharset == "application/json; charset=utf-8"

bodyAllowedForStatus(code) == ~(code \in 100..199 \/ code = 204 \/ code = 304)

\* gin's Context.Render: the first status written stands, a Content-Type
\* already set stands, and the body is written only for a status that allows one.
Render(r, code, ctype, data) ==
    [r EXCEPT !.status = IF r.written THEN @ ELSE code,
              !.ctype = IF @ = "" THEN ctype ELSE @,
              !.body = IF bodyAllowedForStatus(code) THEN @ \o data ELSE @,
              !.written = TRUE]

String(r, code, s) == Render(r, code, TextPlain, s)

JSON(r, code, json) == Render(r, code, JSONCharset, json)

Header(r, ctype) == [r EXCEPT !.ctype = ctype]

\* encoding/json
JSONNull == <<"null">>

JSONString(s) == <<"\"">> \o s \o <<"\"">>

JSONKey(k) == <<"\"", k, "\"", ":">>

RECURSIVE JoinWith(_, _)
JoinWith(ss, sep) ==
    IF ss = <<>> THEN <<>>
    ELSE IF Len(ss) = 1 THEN ss[1]
    ELSE ss[1] \o sep \o JoinWith(Tail(ss), sep)

JSONArray(items) == <<"[">> \o JoinWith(items, <<",">>) \o <<"]">>

\* fields: a sequence of <<key, value text>>
JSONObject(fields) ==
    <<"{">> \o JoinWith([i \in DOMAIN fields |-> JSONKey(fields[i][1]) \o fields[i][2]], <<",">>)
            \o <<"}">>

MarshalDisk(d) == JSONObject(<<<<"device", JSONString(d.device)>>>>)

MarshalInterface(n) ==
    JSONObject(<<<<"mac", JSONString(n.mac)>>, <<"family", Itoa(n.family)>>,
                 <<"address", JSONString(n.address)>>, <<"netmask", JSONString(n.netmask)>>>>)

\* json.Marshal of metadataJSON: every field is omitempty.
MarshalMetadataJSON(j) ==
    JSONObject(
        (IF j.Interfaces # <<>>
         THEN <<<<"interfaces", JSONArray([i \in DOMAIN j.Interfaces |-> MarshalInterface(j.Interfaces[i])])>>>>
         ELSE <<>>)
        \o (IF j.Disks # <<>>
            THEN <<<<"disks", JSONArray([i \in DOMAIN j.Disks |-> MarshalDisk(j.Disks[i])])>>>>
            ELSE <<>>)
        \o (IF j.SSHKeys # <<>>
            THEN <<<<"ssh_keys", JSONArray([i \in DOMAIN j.SSHKeys |-> JSONString(j.SSHKeys[i])])>>>>
            ELSE <<>>)
        \o (IF j.Hostname # <<>> THEN <<<<"hostname", JSONString(j.Hostname)>>>> ELSE <<>>)
        \o (IF j.Gateway # <<>> THEN <<<<"gateway", JSONString(j.Gateway)>>>> ELSE <<>>))

\* ----------------------------------------------------------- hardware source

\* net.SplitHostPort: the host of "host:port"; an address without a port fails.
SplitHostPort(addr) ==
    IF Count(addr, ":") = 1 /\ addr[1] # ":"
    THEN SubSeq(addr, 1, FirstOf(Occurs(addr, <<":">>)) - 1)
    ELSE <<>>

\* gin's Context.ClientIP with no trusted proxy header: the host of RemoteAddr.
GinClientIP(r) == SplitHostPort(r.remoteAddr)

\* The hardware client Serve hands to the handlers it registers, and another
\* client a later registration may be given.
clientData == "clientData"

Clients == {clientData, "otherClient"}

\* The client a /v0 handler calls: in the first revision of the router the
\* package variable, in the second the argument of the closure's constructor.
ClientOf == IF mount = "ginV1" THEN client ELSE clientData

\* hardware.Client.ByIP(ctx, ip): a lookup whose context is cancelled
\* while it runs is given up and returns the context's error.
\* db is the backend of clientData; the backend of any other client knows
\* no hardware.
ByIP(c, cancelled, ip) ==
    IF cancelled THEN [kind |-> "cancelled"]
    ELSE IF c = clientData /\ ip = ClientIP THEN db ELSE [kind |-> "none"]

\* err != nil after ByIP
LookupFailed(hw) == hw.kind \in {"none", "cancelled"}

\* The context the /v0 handlers hand to getHardware is the *gin.Context
\* itself, whose Done() is nil: it is never cancelled, whatever happens to
\* the request.
GinContextCancelled(r) == FALSE

\* A getHardware that tries the lookup a second time when the first fails.
getHardwareRetrying(r) ==
    LET ip == GinClientIP(r)
        hw == ByIP(ClientOf, GinContextCancelled(r), ip)
        call == [client |-> ClientOf, ip |-> ip]
    IN  IF hw.kind = "ok" THEN [err |-> FALSE, hw |-> hw.rec, lookups |-> <<call>>]
        ELSE [err |-> TRUE, lookups |-> <<call, call>>]

\* getHardware: ByIP, Export and json.Unmarshal; any failure is the error.
getHardware(r) ==
    LET ip == GinClientIP(r)
        hw == ByIP(ClientOf, GinContextCancelled(r), ip)
        call == [client |-> ClientOf, ip |-> ip]
    IN  IF hw.kind = "ok" THEN [err |-> FALSE, hw |-> hw.rec, lookups |-> <<call>>]
        ELSE [err |-> TRUE, lookups |-> <<call>>]

\* What a /v0 handler did for its response: the lookup of getHardware, and
\* the reading of the record when the lookup gave one.
GinTrace(out, got) == [out EXCEPT !.lookups = got.lookups, !.evaluated = ~got.err]

\* ------------------------------------------------------------- the /v0 router

Static(name) ==
    [param |-> FALSE,
     s |-> IF name = "ipv4" THEN IPv4Seg ELSE IF name = "ipv6" THEN IPv6Seg ELSE <<name>>]
Param(name) == [param |-> TRUE, s |-> <<name>>]

\* v0HegelMetadataHandler: the routes of the group /v0, static segments
\* ahead of parameters.
GinRoutes ==
    <<[h |-> "userdataHandler", pat |-> <<Static("v0"), Static("user-data")>>],
      [h |-> "metadataHandler", pat |-> <<Static("v0"), Static("meta-data")>>],
      [h |-> "diskHandler", pat |-> <<Static("v0"), Static("meta-data"), Static("disks")>>],
      [h |-> "diskIndexHandler",
       pat |-> <<Static("v0"), Static("meta-data"), Static("disks"), Param("index")>>],
      [h |-> "sshHandler", pat |-> <<Static("v0"), Static("meta-data"), Static("ssh-public-keys")>>],
      [h |-> "sshIndexHandler",
       pat |-> <<Static("v0"), Static("meta-data"), Static("ssh-public-keys"), Param("index")>>],
      [h |-> "hostnameHandler", pat |-> <<Static("v0"), Static("meta-data"), Static("hostname")>>],
      [h |-> "gatewayHandler", pat |-> <<Static("v0"), Static("meta-data"), Static("gateway")>>],
      [h |-> "macHandler", pat |-> <<Static("v0"), Static("meta-data"), Param("mac")>>],
      [h |-> "ipv4Handler", pat |-> <<Static("v0"), Static("meta-data"), Param("mac"), Static("ipv4")>>],
      [h |-> "ipv4IndexHandler",
       pat |-> <<Static("v0"), Static("meta-data"), Param("mac"), Static("ipv4"), Param("index")>>],
      [h |-> "ipv4IPHandler",
       pat |-> <<Static("v0"), Static("meta-data"), Param("mac"), Static("ipv4"), Param("index"),
                 Static("ip")>>],
      [h |-> "ipv4NetmaskHandler",
       pat |-> <<Static("v0"), Static("meta-data"), Param("mac"), Static("ipv4"), Param("index"),
                 Static("netmask")>>],
      [h |-> "ipv6Handler", pat |-> <<Static("v0"), Static("meta-data"), Param("mac"), Static("ipv6")>>],
      [h |-> "ipv6IndexHandler",
       pat |-> <<Static("v0"), Static("meta-data"), Param("mac"), Static("ipv6"), Param("index")>>],
      [h |-> "ipv6IPHandler",
       pat |-> <<Static("v0"), Static("meta-data"), Param("mac"), Static("ipv6"), Param("index"),
                 Static("ip")>>],
      [h |-> "ipv6NetmaskHandler",
       pat |-> <<Static("v0"), Static("meta-data"), Param("mac"), Static("ipv6"), Param("index"),
                 Static("netmask")>>]>>

\* The segments of a path that starts with "/".
Segments(path) == Tail(Split(path, "/"))

Matches(pat, segs) ==
    /\ Len(pat) = Len(segs)
    /\ \A i \in 1..Len(pat) :
          IF pat[i].param THEN segs[i] # <<>> ELSE segs[i] = pat[i].s

MatchingRoutes(path) ==
    IF path = <<>> \/ path[1] # "/" THEN {}
    ELSE LET segs == Segments(path)
         IN  {i \in 1..Len(GinRoutes) : Matches(GinRoutes[i].pat, segs)}

\* The handler gin's tree finds for a path, "" when it finds none.
GinRoute(path) ==
    IF MatchingRoutes(path) = {} THEN "" ELSE GinRoutes[FirstOf(MatchingRoutes(path))].h

\* c.Param: the segment a route binds to a parameter.
ParamOf(path, name) ==
    LET i == FirstOf(MatchingRoutes(path))
        pat == GinRoutes[i].pat
        k == CHOOSE j \in 1..Len(pat) : pat[j] = Param(name)
    IN  Segments(path)[k]

\* ------------------------------------------------- the query engine (gojq)

\* The bytes of the names that the listings sort.
Bytes(n) ==
    CASE n = "instance-id" -> <<105, 110, 115, 116, 97, 110, 99, 101, 45, 105, 100>>
      [] n = "hostname" -> <<104, 111, 115, 116, 110, 97, 109, 101>>
      [] n = "local-hostname" -> <<108, 111, 99, 97, 108, 45, 104, 111, 115, 116, 110, 97, 109, 101>>
      [] n = "iqn" -> <<105, 113, 110>>
      [] n = "plan" -> <<112, 108, 97, 110>>
      [] n = "facility" -> <<102, 97, 99, 105, 108, 105, 116, 121>>
      [] n = "tags" -> <<116, 97, 103, 115>>
      [] n = "operating-system" -> <<111, 112, 101, 114, 97, 116, 105, 110, 103, 45, 115, 121, 115, 116, 101, 109>>
      [] n = "public-keys" -> <<112, 117, 98, 108, 105, 99, 45, 107, 101, 121, 115>>
      [] n = "public-ipv4" -> <<112, 117, 98, 108, 105, 99, 45, 105, 112, 118, 52>>
      [] n = "public-ipv6" -> <<112, 117, 98, 108, 105, 99, 45, 105, 112, 118, 54>>
      [] n = "local-ipv4" -> <<108, 111, 99, 97, 108, 45, 105, 112, 118, 52>>
      [] n = "spot" -> <<115, 112, 111, 116>>
      [] n = "slug" -> <<115, 108, 117, 103>>
      [] n = "distro" -> <<100, 105, 115, 116, 114, 111>>
      [] n = "version" -> <<118, 101, 114, 115, 105, 111, 110>>
      [] n = "license_activation" -> <<108, 105, 99, 101, 110, 115, 101, 95, 97, 99, 116, 105, 118, 97, 116, 105, 111, 110>>
      [] n = "image_tag" -> <<105, 109, 97, 103, 101, 95, 116, 97, 103>>
      [] n = "disks" -> <<100, 105, 115, 107, 115>>
      [] n = "gateway" -> <<103, 97, 116, 101, 119, 97, 121>>
      [] n = "netmask" -> <<110, 101, 116, 109, 97, 115, 107>>

\* Go's string order: byte-wise, a proper prefix first.
RECURSIVE BytesLess(_, _)
BytesLess(a, b) ==
    IF b = <<>> THEN FALSE
    ELSE IF a = <<>> THEN TRUE
    ELSE IF Head(a) # Head(b) THEN Head(a) < Head(b)
    ELSE BytesLess(Tail(a), Tail(b))

NameLess(a, b) == BytesLess(Bytes(a), Bytes(b))

RECURSIVE InsertSorted(_, _)
InsertSorted(sorted, n) ==
    IF sorted = <<>> THEN <<n>>
    ELSE IF NameLess(n, Head(sorted)) THEN <<n>> \o sorted
    ELSE <<Head(sorted)>> \o InsertSorted(Tail(sorted), n)

\* A listing filter that leaves "| sort" out: the names stay as written.
Unsorted(ns) == ns

\* jq's sort, on an array of names.
RECURSIVE Sort(_)
Sort(ns) == IF ns = <<>> THEN <<>> ELSE InsertSorted(Sort(Tail(ns)), Head(ns))

\* The values a query yields: a string, a number (an int from length, a
\* float64 from the decoded JSON), an object, null, or an error.
JString(s) == [t |-> "string", s |-> s, n |-> 0]
JInt(n) == [t |-> "int", s |-> <<>>, n |-> n]
JFloat(n) == [t |-> "float64", s |-> <<>>, n |-> n]
JMap(json) == [t |-> "map", s |-> json, n |-> 0]
JNull == [t |-> "nil", s |-> <<>>, n |-> 0]
JError == [t |-> "error", s |-> <<>>, n |-> 0]

JOptional(o) == IF o.nil THEN JNull ELSE JString(o.v)

Strings(names) == [i \in DOMAIN names |-> JString(<<names[i]>>)]

\* A query: the text of the jq program with the spliced-in path pieces
\* kept apart as $1, $2.
Query(text) == [q |-> text, a |-> <<>>]
QueryWith(text, args) == [q |-> text, a |-> args]

\* The long programs of ec2Filters, hegelFilters and processHegelQuery.
EC2MetaDataFilter ==
    "[\"instance-id\", \"hostname\", \"local-hostname\", \"iqn\", \"plan\", \"facility\", \"tags\", \"operating-system\", \"public-keys\", \"public-ipv4\", \"public-ipv6\", \"local-ipv4\"] + (if .metadata.instance.spot != null then [\"spot\"] else [] end) | sort | .[]"

HegelMetaDataFilter ==
    "[\"hostname\", \"disks\", \"public-ipv4\", \"public-ipv6\", \"local-ipv4\", \"gateway\", \"netmask\"] | sort | .[]"

OperatingSystemFilter ==
    "[\"slug\", \"distro\", \"version\", \"license_activation\", \"image_tag\"] | sort | .[]"

PublicIPv4Filter ==
    ".metadata.instance.network.addresses[]? | select(.address_family == 4 and .public == true) | .address"

PublicIPv6Filter ==
    ".metadata.instance.network.addresses[]? | select(.address_family == 6 and .public == true) | .address"

LocalIPv4Filter ==
    ".metadata.instance.network.addresses[]? | select(.address_family == 4 and .public == false) | .address"

FamiliesFilter ==
    "select(.metadata.instance.id == \"$1\") |.metadata.instance.network.addresses[]? | .address_family"

FamilyAddressesFilter ==
    "select(.metadata.instance.id == \"$1\") |.metadata.instance.network.addresses[]? | select(.address_family == $2)"

FamilyLeafFilter ==
    "select(.metadata.instance.id == \"$1\") |.metadata.instance.network.addresses[]? | select(.address_family == $2) |$3"

\* A piece of path spliced in where jq reads a number: a decimal literal,
\* "-" allowed in front.  Any other piece the request paths of this model
\* splice in (a name, a malformed number) makes the program fail to parse or
\* to compile, whatever the record.
IsNumber(s) == AtoiOK(s) /\ s[1] # "+"

MarshalAddress(a) ==
    JSONObject(<<<<"address", JSONString(a.address)>>,
                 <<"address_family", Itoa(a.address_family)>>,
                 <<"gateway", JSONString(a.gateway)>>,
                 <<"netmask", JSONString(a.netmask)>>,
                 <<"public", <<IF a.public THEN "true" ELSE "false">>>>>>)

\* json.Marshal of the object .metadata.instance, keys in sorted order.
MarshalInstance(rec) ==
    JSONObject(<<<<"hostname", JSONString(rec.hostname)>>,
                 <<"id", JSONString(rec.id)>>,
                 <<"network", JSONObject(<<<<"addresses",
                       JSONArray([i \in DOMAIN rec.addresses |-> MarshalAddress(rec.addresses[i])])>>>>)>>,
                 <<"ssh_keys", JSONArray([i \in DOMAIN rec.ssh_keys |-> JSONString(rec.ssh_keys[i])])>>>>)

\* .metadata.instance.network.addresses[]? | select(.address_family == f and .public == p) | .address
SelectAddresses(rec, family, public) ==
    LET sel == SelectSeq(rec.addresses,
                         LAMBDA a : a.address_family = family /\ a.public = public)
    IN  [i \in DOMAIN sel |-> JString(sel[i].address)]

\* .[i] of an array: null outside it, from the end when i is negative.
IndexArray(arr, i) ==
    LET k == IF i < 0 THEN Len(arr) + i ELSE i
    IN  IF k >= 0 /\ k < Len(arr) THEN Some(arr[k + 1]) ELSE Nil

\* select(.metadata.instance.id == "$1") | .metadata.instance.network.addresses[]?
AddressesOf(rec, mac) == IF rec.id = mac THEN rec.addresses ELSE <<>>

\* query.Run(input): the values the program yields on the exported record.
RunQuery(f, rec) ==
    CASE f.q = "\"meta-data\", \"user-data\"" -> Strings(<<"meta-data", "user-data">>)
      [] f.q = "\"metadata\", \"userdata\"" -> Strings(<<"metadata", "userdata">>)
      [] f.q = ".metadata.userdata" -> <<JOptional(rec.userdata)>>
      [] f.q = EC2MetaDataFilter ->
            Strings(Sort(<<"instance-id", "hostname", "local-hostname", "iqn", "plan",
                           "facility", "tags", "operating-system", "public-keys",
                           "public-ipv4", "public-ipv6", "local-ipv4">>
                         \o (IF ~rec.spot.nil THEN <<"spot">> ELSE <<>>)))
      [] f.q = HegelMetaDataFilter ->
            Strings(Sort(<<"hostname", "disks", "public-ipv4", "public-ipv6", "local-ipv4",
                           "gateway", "netmask">>))
      [] f.q = ".metadata.instance.id" -> <<JString(rec.id)>>
      [] f.q = ".metadata.instance.hostname" -> <<JString(rec.hostname)>>
      [] f.q = ".metadata.instance.iqn" -> <<JString(rec.iqn)>>
      [] f.q = ".metadata.instance.plan" -> <<JString(rec.plan)>>
      [] f.q = ".metadata.instance.facility" -> <<JString(rec.facility)>>
      [] f.q = ".metadata.instance.tags[]?" -> [i \in DOMAIN rec.tags |-> JString(rec.tags[i])]
      [] f.q = OperatingSystemFilter ->
            Strings(Sort(<<"slug", "distro", "version", "license_activation", "image_tag">>))
      [] f.q = ".metadata.instance.operating_system.slug" -> <<JString(rec.os.slug)>>
      [] f.q = ".metadata.instance.operating_system.distro" -> <<JString(rec.os.distro)>>
      [] f.q = ".metadata.instance.operating_system.version" -> <<JString(rec.os.version)>>
      [] f.q = "\"state\"" -> Strings(<<"state">>)
      [] f.q = ".metadata.instance.operating_system.license_activation.state" ->
            <<JString(rec.os.license_state)>>
      [] f.q = ".metadata.instance.operating_system.image_tag" -> <<JString(rec.os.image_tag)>>
      [] f.q = ".metadata.instance.ssh_keys[]?" ->
            [i \in DOMAIN rec.ssh_keys |-> JString(rec.ssh_keys[i])]
      [] f.q = "\"termination-time\"" -> Strings(<<"termination-time">>)
      [] f.q = ".metadata.instance.spot.termination_time" -> <<JOptional(rec.spot)>>
      [] f.q = PublicIPv4Filter -> SelectAddresses(rec, 4, TRUE)
      [] f.q = PublicIPv6Filter -> SelectAddresses(rec, 6, TRUE)
      [] f.q = LocalIPv4Filter -> SelectAddresses(rec, 4, FALSE)
      [] f.q = ".metadata.disks | length" -> <<JInt(Len(rec.disks))>>
      [] f.q = ".metadata.instance.ssh_keys | length" -> <<JInt(Len(rec.ssh_keys))>>
      [] f.q = ".metadata.instance.network.addresses[]? | .gateway" ->
            [i \in DOMAIN rec.addresses |-> JString(rec.addresses[i].gateway)]
      [] f.q = ".metadata.instance.network.addresses[]? | .netmask" ->
            [i \in DOMAIN rec.addresses |-> JString(rec.addresses[i].netmask)]
      [] f.q = ".metadata.instance" -> <<JMap(MarshalInstance(rec))>>
      [] f.q = ".metadata.instance.ssh_keys[$1]" ->
            IF ~IsNumber(f.a[1]) THEN <<JError>>
            ELSE LET e == IndexArray(rec.ssh_keys, Atoi(f.a[1]))
                 IN  <<IF e.nil THEN JNull ELSE JString(e.v)>>
      [] f.q = ".metadata.disks[$1]" ->
            IF ~IsNumber(f.a[1]) THEN <<JError>>
            ELSE LET e == IndexArray(rec.disks, Atoi(f.a[1]))
                 IN  <<IF e.nil THEN JNull ELSE JMap(MarshalDisk(e.v))>>
      [] f.q = FamiliesFilter ->
            LET as == AddressesOf(rec, f.a[1])
            IN  [i \in DOMAIN as |-> JFloat(as[i].address_family)]
      [] f.q = FamilyAddressesFilter ->
            IF ~IsNumber(f.a[2]) THEN <<JError>>
            ELSE LET as == SelectSeq(AddressesOf(rec, f.a[1]),
                                     LAMBDA a : a.address_family = Atoi(f.a[2]))
                 IN  [i \in DOMAIN as |-> JMap(MarshalAddress(as[i]))]
      [] f.q = "[\"ip\", \"netmask\"] | .[]" -> Strings(<<"ip", "netmask">>)
      [] f.q = FamilyLeafFilter ->
            IF ~IsNumber(f.a[2]) THEN <<JError>>
            ELSE LET as == SelectSeq(AddressesOf(rec, f.a[1]),
                                     LAMBDA a : a.address_family = Atoi(f.a[2]))
                 IN  [i \in DOMAIN as |->
                        JString(IF f.a[3] = ".address" THEN as[i].address ELSE as[i].netmask)]

\* ------------------------------------------- path resolution (the filter tables)

ec2Filters ==
    <<<<<<>>, Query("\"meta-data\", \"user-data\"")>>,
      <<Path(<<Seg("user-data")>>), Query(".metadata.userdata")>>,
      <<Path(<<Seg("meta-data")>>), Query(EC2MetaDataFilter)>>,
      <<Path(<<Seg("meta-data"), Seg("instance-id")>>), Query(".metadata.instance.id")>>,
      <<Path(<<Seg("meta-data"), Seg("hostname")>>), Query(".metadata.instance.hostname")>>,
      <<Path(<<Seg("meta-data"), Seg("local-hostname")>>), Query(".metadata.instance.hostname")>>,
      <<Path(<<Seg("meta-data"), Seg("iqn")>>), Query(".metadata.instance.iqn")>>,
      <<Path(<<Seg("meta-data"), Seg("plan")>>), Query(".metadata.instance.plan")>>,
      <<Path(<<Seg("meta-data"), Seg("facility")>>), Query(".metadata.instance.facility")>>,
      <<Path(<<Seg("meta-data"), Seg("tags")>>), Query(".metadata.instance.tags[]?")>>,
      <<Path(<<Seg("meta-data"), Seg("operating-system")>>), Query(OperatingSystemFilter)>>,
      <<Path(<<Seg("meta-data"), Seg("operating-system"), Seg("slug")>>),
        Query(".metadata.instance.operating_system.slug")>>,
      <<Path(<<Seg("meta-data"), Seg("operating-system"), Seg("distro")>>),
        Query(".metadata.instance.operating_system.distro")>>,
      <<Path(<<Seg("meta-data"), Seg("operating-system"), Seg("version")>>),
        Query(".metadata.instance.operating_system.version")>>,
      <<Path(<<Seg("meta-data"), Seg("operating-system"), Seg("license_activation")>>),
        Query("\"state\"")>>,
      <<Path(<<Seg("meta-data"), Seg("operating-system"), Seg("license_activation"), Seg("state")>>),
        Query(".metadata.instance.operating_system.license_activation.state")>>,
      <<Path(<<Seg("meta-data"), Seg("operating-system"), Seg("image_tag")>>),
        Query(".metadata.instance.operating_system.image_tag")>>,
      <<Path(<<Seg("meta-data"), Seg("public-keys")>>), Query(".metadata.instance.ssh_keys[]?")>>,
      <<Path(<<Seg("meta-data"), Seg("spot")>>), Query("\"termination-time\"")>>,
      <<Path(<<Seg("meta-data"), Seg("spot"), Seg("termination-time")>>),
        Query(".metadata.instance.spot.termination_time")>>,
      <<Path(<<Seg("meta-data"), Seg("public-ipv4")>>), Query(PublicIPv4Filter)>>,
      <<Path(<<Seg("meta-data"), Seg("public-ipv6")>>), Query(PublicIPv6Filter)>>,
      <<Path(<<Seg("meta-data"), Seg("local-ipv4")>>), Query(LocalIPv4Filter)>>>>

hegelFilters ==
    <<<<<<>>, Query("\"metadata\", \"userdata\"")>>,
      <<Path(<<Seg("user-data")>>), Query(".metadata.userdata")>>,
      <<Path(<<Seg("meta-data")>>), Query(HegelMetaDataFilter)>>,
      <<Path(<<Seg("meta-data"), Seg("hostname")>>), Query(".metadata.instance.hostname")>>,
      <<Path(<<Seg("meta-data"), Seg("disks")>>), Query(".metadata.disks | length")>>,
      <<Path(<<Seg("meta-data"), Seg("public-ipv4")>>), Query(PublicIPv4Filter)>>,
      <<Path(<<Seg("meta-data"), Seg("public-ipv6")>>), Query(PublicIPv6Filter)>>,
      <<Path(<<Seg("meta-data"), Seg("local-ipv4")>>), Query(LocalIPv4Filter)>>,
      <<Path(<<Seg("meta-data"), Seg("gateway")>>),
        Query(".metadata.instance.network.addresses[]? | .gateway")>>,
      <<Path(<<Seg("meta-data"), Seg("netmask")>>),
        Query(".metadata.instance.network.addresses[]? | .netmask")>>,
      <<Path(<<Seg("meta-data"), Seg("ssh-public-keys")>>),
        Query(".metadata.instance.ssh_keys | length")>>>>

\* The outcome of resolving a path: a filter, an error, or a panic.
Resolved(f) == [err |-> FALSE, panic |-> FALSE, filter |-> f]
Invalid == [err |-> TRUE, panic |-> FALSE, filter |-> Query("")]
Panics == [err |-> FALSE, panic |-> TRUE, filter |-> Query("")]

\* filter, ok := table[query]
Lookup(table, query) ==
    LET hits == {i \in DOMAIN table : table[i][1] = query}
    IN  IF hits = {} THEN Invalid ELSE Resolved(table[CHOOSE i \in hits : TRUE][2])

processEC2Query(url) == Lookup(ec2Filters, TrimRight(TrimPrefix(url, EC2Prefix), "/"))

isMACAddress(url) == Count(url, ":") = 5

processHegelQuery(url, jsonRequest) ==
    LET query == TrimRight(TrimPrefix(url, V0Prefix), "/")
        split_query == Tail(Split(query, "/"))
    IN  IF query = Path(<<Seg("meta-data")>>) /\ jsonRequest
        THEN Resolved(Query(".metadata.instance"))
        ELSE IF Contains(query, <<"ssh-public-keys", "/">>)
        THEN Resolved(QueryWith(".metadata.instance.ssh_keys[$1]",
                                <<SplitAfter(query, <<"ssh-public-keys", "/">>)[2]>>))
        ELSE IF Contains(query, <<"disks", "/">>)
        THEN Resolved(QueryWith(".metadata.disks[$1]", <<SplitAfter(query, <<"disks", "/">>)[2]>>))
        ELSE IF isMACAddress(query)
        THEN IF Len(split_query) < 2 THEN Panics      \* split_query[1]: index out of range
             ELSE LET mac == split_query[2]
                  IN  CASE Len(split_query) = 2 -> Resolved(QueryWith(FamiliesFilter, <<mac>>))
                        [] Len(split_query) = 3 ->
                              Resolved(QueryWith(FamilyAddressesFilter,
                                                 <<mac, TrimPrefix(split_query[3], <<"ipv">>)>>))
                        [] Len(split_query) = 4 -> Resolved(Query("[\"ip\", \"netmask\"] | .[]"))
                        [] Len(split_query) = 5 ->
                              IF split_query[5] = Seg("ip")
                              THEN Resolved(QueryWith(FamilyLeafFilter,
                                       <<mac, TrimPrefix(split_query[3], <<"ipv">>), ".address">>))
                              ELSE IF split_query[5] = Seg("netmask")
                              THEN Resolved(QueryWith(FamilyLeafFilter,
                                       <<mac, TrimPrefix(split_query[3], <<"ipv">>), ".netmask">>))
                              ELSE Invalid
                        [] OTHER -> Resolved(Query(PublicIPv4Filter))
        ELSE Lookup(hegelFilters, query)

routeLength(url) == Len(Split(TrimRight(TrimPrefix(url, <<"/", "v0", "/">>), "/"), "/"))

\* val, _ := strconv.Atoi(split_query[3]): 0 when the segment is no number
getNetworkIndex(url) ==
    LET seg == Split(TrimRight(TrimPrefix(url, <<"/", "v0", "/">>), "/"), "/")[4]
    IN  IF AtoiOK(seg) THEN Atoi(seg) ELSE 0

returnJSONObject(accept) == \E i \in DOMAIN accept : accept[i] = JSONType

\* ------------------------------------------------------- filtering the record

Filtered(out) == [err |-> FALSE, out |-> out]
FilterError == [err |-> TRUE, out |-> <<>>]

\* json.Marshal of a value that is no string
MarshalValue(v) == IF v.t = "map" THEN v.s ELSE Itoa(v.n)

RECURSIVE filterMetadataLoop(_, _)
filterMetadataLoop(vals, result) ==
    IF vals = <<>> THEN Filtered(TrimSuffix(result, <<"\n">>))
    ELSE LET v == Head(vals)
         IN  CASE v.t = "nil" -> filterMetadataLoop(Tail(vals), result)
               [] v.t = "error" -> FilterError
               [] v.t = "string" -> filterMetadataLoop(Tail(vals), result \o v.s \o <<"\n">>)
               [] OTHER -> filterMetadataLoop(Tail(vals), result \o MarshalValue(v) \o <<"\n">>)

\* export: what hw.Export() returned, a record or bytes that are no JSON
filterMetadata(export, filter) ==
    IF export.kind = "malformed" THEN FilterError
    ELSE filterMetadataLoop(RunQuery(filter, export.rec), <<>>)

\* fmt.Sprint of a float64 that holds a whole number
SprintFloat(n) == Itoa(n)

RECURSIVE PrintUpTo(_, _, _)
PrintUpTo(result, i, n) ==
    IF i >= n THEN result ELSE PrintUpTo(result \o Itoa(i) \o <<"\n">>, i + 1, n)

RECURSIVE filterHegelLoop(_, _, _, _, _)
filterHegelLoop(vals, url, result, floatSet, networkObjectCounter) ==
    IF vals = <<>> THEN Filtered(TrimSuffix(result, <<"\n">>))
    ELSE LET v == Head(vals)
             rest == Tail(vals)
         IN  CASE v.t = "nil" -> filterHegelLoop(rest, url, result, floatSet, networkObjectCounter)
               [] v.t = "error" -> FilterError
               [] v.t = "string" ->
                     IF isMACAddress(url) /\ routeLength(url) = 5
                     THEN filterHegelLoop(rest, url,
                              IF getNetworkIndex(url) = networkObjectCounter
                              THEN result \o v.s \o <<"\n">> ELSE result,
                              floatSet, networkObjectCounter + 1)
                     ELSE filterHegelLoop(rest, url, result \o v.s \o <<"\n">>,
                                          floatSet, networkObjectCounter)
               [] v.t = "int" ->
                     IF Contains(url, <<"disks">>) \/ Contains(url, <<"ssh-public-keys">>)
                     THEN filterHegelLoop(rest, url, PrintUpTo(result, 0, v.n),
                                          floatSet, networkObjectCounter)
                     ELSE filterHegelLoop(rest, url, result, floatSet, networkObjectCounter)
               [] v.t = "float64" ->
                     IF isMACAddress(url) /\ routeLength(url) = 2
                     THEN filterHegelLoop(rest, url,
                              IF v.n \notin floatSet
                              THEN result \o <<"ipv">> \o SprintFloat(v.n) \o <<"\n">>
                              ELSE result,
                              floatSet \cup {v.n}, networkObjectCounter)
                     ELSE filterHegelLoop(rest, url, result, floatSet, networkObjectCounter)
               [] v.t = "map" ->
                     IF isMACAddress(url)
                     THEN IF routeLength(url) = 3
                          THEN filterHegelLoop(rest, url,
                                   result \o Itoa(networkObjectCounter) \o <<"\n">>,
                                   floatSet, networkObjectCounter + 1)
                          ELSE filterHegelLoop(rest, url, result, floatSet, networkObjectCounter)
                     ELSE filterHegelLoop(rest, url, result \o v.s \o <<"\n">>,
                                          floatSet, networkObjectCounter)

filterHegelMetadata(export, filter, url) ==
    IF export.kind = "malformed" THEN FilterError
    ELSE filterHegelLoop(RunQuery(filter, export.rec), url, <<>>, {}, 0)

\* ------------------------------------------- the net/http handlers (handlers)

\* http.ResponseWriter: the first WriteHeader stands; a Write sends 200 when
\* no status was written, and sniffs the content type of a body.
WriteHeader(r, code) == IF r.written THEN r ELSE [r EXCEPT !.status = code, !.written = TRUE]

Write(r, data) ==
    [r EXCEPT !.written = TRUE,
              !.body = @ \o data,
              !.ctype = IF @ = "" /\ data # <<>> THEN TextPlain ELSE @]

\* The handler panicked: the server closes the connection, no response is sent.
Aborted(r) == [r EXCEPT !.status = 0, !.body = <<>>, !.ctype = "", !.written = FALSE]

getIPFromRequest(r) ==
    IF Contains(r.remoteAddr, <<":">>) THEN SplitHostPort(r.remoteAddr) ELSE r.remoteAddr

\* The response once the handler has looked the address up.
Looked(userIP) ==
    [NoResponse EXCEPT !.lookups = <<[client |-> clientData, ip |-> userIP]>>]

\* The response once the handler has run the filter on the export.
Evaluated(r) == [r EXCEPT !.evaluated = TRUE]

EC2MetadataRun(r) ==
    LET userIP == getIPFromRequest(r)
        hw == ByIP(clientData, r.cancelled, userIP)
        filter == processEC2Query(r.path)
        out == filterMetadata(hw, filter.filter)
    IN  IF r.method # "GET" THEN WriteHeader(NoResponse, 405)
        ELSE IF userIP = <<>> THEN NoResponse
        ELSE IF LookupFailed(hw) THEN WriteHeader(Looked(userIP), 404)
        ELSE IF hw.kind = "noexport"
        THEN Write(WriteHeader(Looked(userIP), 500), <<"404 not found">>)
        ELSE IF filter.err THEN Write(WriteHeader(Looked(userIP), 404), <<"404 not found">>)
        ELSE Write(Evaluated(Looked(userIP)), out.out)

HegelMetadataRun(r) ==
    LET userIP == getIPFromRequest(r)
        hw == ByIP(clientData, r.cancelled, userIP)
        filter == processHegelQuery(r.path, returnJSONObject(r.accept))
        out == filterHegelMetadata(hw, filter.filter, r.path)
    IN  IF r.method # "GET" THEN WriteHeader(NoResponse, 405)
        ELSE IF userIP = <<>> THEN NoResponse
        ELSE IF LookupFailed(hw) THEN WriteHeader(Looked(userIP), 404)
        ELSE IF hw.kind = "noexport"
        THEN Write(WriteHeader(Looked(userIP), 500), <<"404 not found">>)
        ELSE IF filter.panic THEN Aborted(Looked(userIP))
        ELSE IF filter.err THEN Write(WriteHeader(Looked(userIP), 404), <<"404 not found">>)
        ELSE Write(IF returnJSONObject(r.accept)
                   THEN Header(Evaluated(Looked(userIP)), JSONType)
                   ELSE Evaluated(Looked(userIP)),
                   out.out)

\* The data models of package datamodel: the two the handler names, and any
\* other.
TinkServer == "TinkServer"
Kubernetes == "Kubernetes"
DataModels == {TinkServer, Kubernetes, "other"}

\* The custom endpoints Serve registers: endpoint and filter.
customEndpoints == <<<<Path(<<Seg("metadata")>>), Query(".metadata.instance")>>>>

\* hw.Export(): the record as JSON text, or bytes that are no JSON.
Export(hw) ==
    IF hw.kind = "malformed" THEN <<"{not json">>
    ELSE JSONObject(<<<<"metadata", JSONObject(<<<<"instance", MarshalInstance(hw.rec)>>>>)>>>>)

GetMetadataRun(r, filter, m) ==
    LET userIP == getIPFromRequest(r)
        hw == ByIP(clientData, r.cancelled, userIP)
        out == filterMetadata(hw, filter)
    IN  IF r.method # "GET" THEN WriteHeader(NoResponse, 405)
        ELSE IF userIP = <<>> THEN NoResponse
        ELSE IF LookupFailed(hw) THEN WriteHeader(Looked(userIP), 404)
        ELSE IF hw.kind = "noexport" THEN WriteHeader(Looked(userIP), 500)
        ELSE IF m = TinkServer \/ m = Kubernetes
        THEN IF out.err THEN WriteHeader(Looked(userIP), 500)
             ELSE Write(WriteHeader(Evaluated(Looked(userIP)), 200), out.out)
        ELSE Write(WriteHeader(Evaluated(Looked(userIP)), 200), Export(hw))

\* json.NewEncoder(w).Encode of the health payload, the values of the
\* revision, the uptime and the goroutine count left as they come.
HealthPayload(clientIsHealthy) ==
    JSONObject(<<<<"git_rev", JSONString(<<"rev">>)>>,
                 <<"uptime", <<"1.5">>>>,
                 <<"goroutines", <<"7">>>>,
                 <<"hardware_client_status", <<IF clientIsHealthy THEN "true" ELSE "false">>>>>>)
    \o <<"\n">>

\* writeFails: the connection does not take the encoder's write.  The write
\* has by then fixed the status, so the WriteHeader calls that follow the
\* encoding change nothing.
HealthCheckRun(clientIsHealthy, writeFails) ==
    LET res == HealthPayload(clientIsHealthy)
        encoded == Write(Header(NoResponse, JSONType), IF writeFails THEN <<>> ELSE res)
    IN  IF writeFails THEN WriteHeader(encoded, 500)
        ELSE IF ~clientIsHealthy THEN WriteHeader(encoded, 500)
        ELSE encoded

VersionRun(writeFails) ==
    LET payload == JSONObject(<<<<"git_rev", JSONString(<<"rev">>)>>>>) \o <<"\n">>
        encoded == Write(NoResponse, IF writeFails THEN <<>> ELSE payload)
    IN  IF writeFails THEN WriteHeader(encoded, 500) ELSE encoded

\* -------------------------------------------------- the /v0 handlers (api.go)

\* A loop that runs one step too far: for i := 0; i <= n; i++
RECURSIVE PrintIndexesInclusive(_, _, _)
PrintIndexesInclusive(r, i, n) ==
    IF i > n THEN r ELSE PrintIndexesInclusive(String(r, 200, Sprintln(i)), i + 1, n)

\* for i := 0; i < n; i++ { c.String(http.StatusOK, fmt.Sprintln(i)) }
RECURSIVE PrintIndexes(_, _, _)
PrintIndexes(r, i, n) ==
    IF i >= n THEN r ELSE PrintIndexes(String(r, 200, Sprintln(i)), i + 1, n)

userdataRun(r) ==
    LET got == getHardware(r)
    IN  IF got.err THEN JSON(NoResponse, 404, JSONNull)
        ELSE IF got.hw.userdata.nil THEN String(NoResponse, 200, <<>>)
        ELSE String(NoResponse, 200, got.hw.userdata.v)

acceptsJSON(r) == \E i \in DOMAIN r.accept : r.accept[i] = JSONType

StaticListing ==
    <<"disks", "\n", "ssh-public-keys", "\n", "gateway", "\n", "hostname", "\n", ":", "mac", "\n">>

metadataRun(r) ==
    IF acceptsJSON(r)
    THEN LET got == getHardware(r)
         IN  IF got.err THEN JSON(NoResponse, 404, JSONNull)
             ELSE JSON(Header(NoResponse, JSONType), 200,
                       MarshalMetadataJSON([Disks |-> got.hw.disks,
                                            Gateway |-> got.hw.gateway,
                                            Hostname |-> got.hw.hostname,
                                            SSHKeys |-> got.hw.ssh_keys,
                                            Interfaces |-> got.hw.interfaces]))
    ELSE String(NoResponse, 200, StaticListing)

diskRun(r) ==
    LET got == getHardware(r)
    IN  IF got.err THEN JSON(NoResponse, 404, JSONNull)
        ELSE PrintIndexes(NoResponse, 0, Len(got.hw.disks))

\* A disk handler that answers an index outside the disks with 200.
diskIndexRunLenient(r) ==
    LET got == getHardware(r)
        index == ParamOf(r.path, "index")
    IN  IF got.err THEN JSON(NoResponse, 404, JSONNull)
        ELSE IF ~AtoiOK(index) THEN JSON(NoResponse, 400, JSONNull)
        ELSE IF Atoi(index) >= 0 /\ Atoi(index) < Len(got.hw.disks)
        THEN JSON(NoResponse, 200, MarshalDisk(got.hw.disks[Atoi(index) + 1]))
        ELSE JSON(NoResponse, 200, JSONNull)

diskIndexRun(r) ==
    LET got == getHardware(r)
        index == ParamOf(r.path, "index")
    IN  IF got.err THEN JSON(NoResponse, 404, JSONNull)
        ELSE IF ~AtoiOK(index) THEN JSON(NoResponse, 400, JSONNull)
        ELSE IF Atoi(index) >= 0 /\ Atoi(index) < Len(got.hw.disks)
        THEN JSON(NoResponse, 200, MarshalDisk(got.hw.disks[Atoi(index) + 1]))
        ELSE JSON(NoResponse, 400, JSONNull)

sshRun(r) ==
    LET got == getHardware(r)
    IN  IF got.err THEN JSON(NoResponse, 404, JSONNull)
        ELSE PrintIndexes(NoResponse, 0, Len(got.hw.ssh_keys))

sshIndexRun(r) ==
    LET got == getHardware(r)
        index == ParamOf(r.path, "index")
    IN  IF got.err THEN JSON(NoResponse, 404, JSONNull)
        ELSE IF ~AtoiOK(index) THEN JSON(NoResponse, 400, JSONNull)
        ELSE IF Atoi(index) >= 0 /\ Atoi(index) < Len(got.hw.ssh_keys)
        THEN String(NoResponse, 200, got.hw.ssh_keys[Atoi(index) + 1])
        ELSE String(NoResponse, 400, <<>>)

hostnameRun(r) ==
    LET got == getHardware(r)
    IN  IF got.err THEN JSON(NoResponse, 404, JSONNull)
        ELSE String(NoResponse, 200, got.hw.hostname)

gatewayRun(r) ==
    LET got == getHardware(r)
    IN  IF got.err THEN JSON(NoResponse, 404, JSONNull)
        ELSE String(NoResponse, 200, got.hw.gateway)

\* A selection that forgets to compare the MAC: every interface is kept.
validInterfacesOfAnyMAC(hw, mac) == hw.interfaces

\* The interfaces of the record whose MAC is the path's.
validInterfaces(hw, mac) == SelectSeq(hw.interfaces, LAMBDA n : mac = n.mac)

\* The entries of one address family.
ofFamily(ifaces, family) == SelectSeq(ifaces, LAMBDA v : v.family = family)

macRun(r) ==
    LET got == getHardware(r)
    IN  IF got.err THEN JSON(NoResponse, 404, JSONNull)
        ELSE IF validInterfaces(got.hw, ParamOf(r.path, "mac")) = <<>>
        THEN String(NoResponse, 204, <<>>)
        ELSE String(NoResponse, 200, IPv4Seg \o <<"\n">> \o IPv6Seg \o <<"\n">>)

\* ipv4Handler and ipv6Handler
ipvNRun(r, family) ==
    LET got == getHardware(r)
    IN  IF got.err THEN JSON(NoResponse, 404, JSONNull)
        ELSE LET valid == validInterfaces(got.hw, ParamOf(r.path, "mac"))
                 i == Len(ofFamily(valid, family))
             IN  IF valid = <<>> THEN String(NoResponse, 204, <<>>)
                 ELSE IF i = 0 THEN String(NoResponse, 204, <<>>)
                 ELSE PrintIndexes(NoResponse, 0, i)

\* ipv4IndexHandler and ipv6IndexHandler
ipvNIndexRun(r, family) ==
    LET got == getHardware(r)
    IN  IF got.err THEN JSON(NoResponse, 404, JSONNull)
        ELSE LET valid == validInterfaces(got.hw, ParamOf(r.path, "mac"))
             IN  IF valid = <<>> THEN String(NoResponse, 204, <<>>)
                 ELSE IF ofFamily(valid, family) = <<>> THEN String(NoResponse, 204, <<>>)
                 ELSE String(NoResponse, 200, <<"ip", "\n", "netmask">>)

\* ipv4IPHandler, ipv4NetmaskHandler, ipv6IPHandler and ipv6NetmaskHandler
\* A leaf handler that parses the index before it looks for the MAC.
ipvNLeafRunIndexFirst(r, family, leaf) ==
    LET got == getHardware(r)
        index == ParamOf(r.path, "index")
    IN  IF got.err THEN JSON(NoResponse, 404, JSONNull)
        ELSE LET valid == validInterfaces(got.hw, ParamOf(r.path, "mac"))
                 networks == ofFamily(valid, family)
             IN  IF ~AtoiOK(index) THEN JSON(NoResponse, 400, JSONNull)
                 ELSE IF valid = <<>> THEN String(NoResponse, 204, <<>>)
                 ELSE IF networks = <<>> \/ Atoi(index) < 0 \/ Atoi(index) >= Len(networks)
                 THEN String(NoResponse, 204, <<>>)
                 ELSE String(NoResponse, 200,
                             IF leaf = "ip" THEN networks[Atoi(index) + 1].address
                             ELSE networks[Atoi(index) + 1].netmask)

ipvNLeafRun(r, family, leaf) ==
    LET got == getHardware(r)
        index == ParamOf(r.path, "index")
    IN  IF got.err THEN JSON(NoResponse, 404, JSONNull)
        ELSE LET valid == validInterfaces(got.hw, ParamOf(r.path, "mac"))
                 networks == ofFamily(valid, family)
             IN  IF valid = <<>> THEN String(NoResponse, 204, <<>>)
                 ELSE IF ~AtoiOK(index) THEN JSON(NoResponse, 400, JSONNull)
                 ELSE IF networks = <<>> \/ Atoi(index) < 0 \/ Atoi(index) >= Len(networks)
                 THEN String(NoResponse, 204, <<>>)
                 ELSE String(NoResponse, 200,
                             IF leaf = "ip" THEN networks[Atoi(index) + 1].address
                             ELSE networks[Atoi(index) + 1].netmask)

\* ------------------------------------- the first /v0 router's macHandler

\* The keys of availableIP whose value is true.
availableIP(hw) ==
    {f \in {4, 6} : \E i \in DOMAIN hw.addresses : hw.addresses[i].address_family = f}

\* for key, value := range availableIP: Go visits the keys of a map in an
\* order it does not fix; order is one such order.
macRunV1(r, order) ==
    LET got == getHardware(r)
        shown == SelectSeq(order, LAMBDA f : f \in availableIP(got.hw))
        keys == [i \in DOMAIN shown |-> <<"ipv">> \o Itoa(shown[i]) \o <<"\n">>]
    IN  IF got.err THEN JSON(NoResponse, 404, JSONNull)
        ELSE IF ParamOf(r.path, "mac") # got.hw.id THEN String(NoResponse, 204, <<>>)
        ELSE IF shown = <<>> THEN String(NoResponse, 204, <<>>)
        ELSE String(NoResponse, 200, Concat(keys))

MapOrders == {<<4, 6>>, <<6, 4>>}

\* -------------------------------------------------- Serve (part_000 21-86)

ErrServerClosed == "http: Server closed"

\* A call of Serve.  pc: the statement it stands before ("register", "xff",
\* "ListenAndServe"), "listening" inside ListenAndServe with the listener
\* open, "returned".  parsable, proxiesOK, portFree: whether json.Unmarshal
\* takes customEndpoints, xff.HTTPHandler takes the proxies, the port can be
\* bound.  ctxDone: ctx is cancelled.  goroutine: the one that waits for
\* ctx.Done() ("none" before the go statement, "waiting", "exited").
\* closed: server.Close() was called.  listened: the listener was opened.
ServeCall(parsable, proxiesOK, portFree, ctxDone) ==
    [pc |-> "register", parsable |-> parsable, proxiesOK |-> proxiesOK,
     portFree |-> portFree, ctxDone |-> ctxDone, goroutine |-> "none",
     closed |-> FALSE, listened |-> FALSE, err |-> ""]

ServeCalls ==
    {ServeCall(pa, pr, po, cd) : pa \in BOOLEAN, pr \in BOOLEAN, po \in BOOLEAN, cd \in BOOLEAN}

Return(s, err) == [s EXCEPT !.pc = "returned", !.err = err]

\* server.Close(): the listener and the connections are closed, and the
\* server refuses to serve from then on.
CloseLingering(s) == s

Close(s) == [s EXCEPT !.closed = TRUE]

Listening(s) == s.pc = "listening" /\ ~s.closed

\* The call of Serve behind a server that takes requests.
ServerUp ==
    [ServeCall(TRUE, TRUE, TRUE, FALSE) EXCEPT
        !.pc = "listening", !.goroutine = "waiting", !.listened = TRUE]

\* err := registerCustomEndpoints(...); if err != nil { return ... }
registerCustomEndpoints ==
    /\ serve.pc = "register"
    /\ serve' = IF serve.parsable THEN [serve EXCEPT !.pc = "xff"]
                ELSE Return(serve, "register custom endpoints")
    /\ UNCHANGED <<mount, db, phase, req, route, resp, client, model, healthy>>

\* handler, err := xff.HTTPHandler(httpHandler, proxies); the server is
\* built and the goroutine that waits for ctx.Done() is started.
xffHTTPHandler ==
    /\ serve.pc = "xff"
    /\ serve' = IF serve.proxiesOK
                THEN [serve EXCEPT !.pc = "ListenAndServe", !.goroutine = "waiting"]
                ELSE Return(serve, "xff")
    /\ UNCHANGED <<mount, db, phase, req, route, resp, client, model, healthy>>

\* return server.ListenAndServe(): a closed server returns ErrServerClosed
\* at once, a port that cannot be bound returns the error of net.Listen,
\* otherwise the listener is open and the server accepts.
ListenAndServe ==
    /\ serve.pc = "ListenAndServe"
    /\ serve' = IF serve.closed THEN Return(serve, ErrServerClosed)
                ELSE IF ~serve.portFree THEN Return(serve, "listen")
                ELSE [serve EXCEPT !.pc = "listening", !.listened = TRUE]
    /\ UNCHANGED <<mount, db, phase, req, route, resp, client, model, healthy>>

\* Accept fails on the listener server.Close() closed: ListenAndServe
\* returns ErrServerClosed, and Serve returns it.
ListenAndServeReturns ==
    /\ serve.pc = "listening" /\ serve.closed
    /\ serve' = Return(serve, ErrServerClosed)
    /\ UNCHANGED <<mount, db, phase, req, route, resp, client, model, healthy>>

\* The caller of Serve cancels ctx.
ctxCancel ==
    /\ ~serve.ctxDone
    /\ serve' = [serve EXCEPT !.ctxDone = TRUE]
    /\ UNCHANGED <<mount, db, phase, req, route, resp, client, model, healthy>>

\* go func() { <-ctx.Done(); server.Close() }()
closeGoroutine ==
    /\ serve.goroutine = "waiting" /\ serve.ctxDone
    /\ serve' = [Close(serve) EXCEPT !.goroutine = "exited"]
    /\ UNCHANGED <<mount, db, phase, req, route, resp, client, model, healthy>>

\* ------------------------------------------------------------------ actions

NoRequest ==
    [method |-> "", path |-> <<>>, accept |-> <<>>, remoteAddr |-> <<>>, cancelled |-> FALSE]

\* A request is being served; a client may send the same request again, and
\* the handler then runs again on it.
Serving == phase \in {"pending", "done"}

Respond(r) ==
    /\ resp' = r
    /\ phase' = "done"
    /\ UNCHANGED <<mount, db, req, route, client, model, healthy, serve>>

GinServes(h) == mount = "gin" /\ Serving /\ route = h

userdataHandler == GinServes("userdataHandler") /\ Respond(GinTrace(userdataRun(req), getHardware(req)))

metadataHandler ==
    /\ GinServes("metadataHandler")
    /\ Respond(IF acceptsJSON(req) THEN GinTrace(metadataRun(req), getHardware(req))
               ELSE metadataRun(req))

diskHandler == GinServes("diskHandler") /\ Respond(GinTrace(diskRun(req), getHardware(req)))

diskIndexHandler == GinServes("diskIndexHandler") /\ Respond(GinTrace(diskIndexRun(req), getHardware(req)))

sshHandler == GinServes("sshHandler") /\ Respond(GinTrace(sshRun(req), getHardware(req)))

sshIndexHandler == GinServes("sshIndexHandler") /\ Respond(GinTrace(sshIndexRun(req), getHardware(req)))

hostnameHandler == GinServes("hostnameHandler") /\ Respond(GinTrace(hostnameRun(req), getHardware(req)))

gatewayHandler == GinServes("gatewayHandler") /\ Respond(GinTrace(gatewayRun(req), getHardware(req)))

macHandler == GinServes("macHandler") /\ Respond(GinTrace(macRun(req), getHardware(req)))

ipv4Handler == GinServes("ipv4Handler") /\ Respond(GinTrace(ipvNRun(req, 4), getHardware(req)))

ipv4IndexHandler == GinServes("ipv4IndexHandler") /\ Respond(GinTrace(ipvNIndexRun(req, 4), getHardware(req)))

ipv4IPHandler == GinServes("ipv4IPHandler") /\ Respond(GinTrace(ipvNLeafRun(req, 4, "ip"), getHardware(req)))

ipv4NetmaskHandler == GinServes("ipv4NetmaskHandler") /\ Respond(GinTrace(ipvNLeafRun(req, 4, "netmask"), getHardware(req)))

ipv6Handler == GinServes("ipv6Handler") /\ Respond(GinTrace(ipvNRun(req, 6), getHardware(req)))

ipv6IndexHandler == GinServes("ipv6IndexHandler") /\ Respond(GinTrace(ipvNIndexRun(req, 6), getHardware(req)))

ipv6IPHandler == GinServes("ipv6IPHandler") /\ Respond(GinTrace(ipvNLeafRun(req, 6, "ip"), getHardware(req)))

ipv6NetmaskHandler == GinServes("ipv6NetmaskHandler") /\ Respond(GinTrace(ipvNLeafRun(req, 6, "netmask"), getHardware(req)))

\* gin's answer to a path no route matches: a redirect when the path without
\* its trailing slash has a route, 404 otherwise.
NotFoundPage == [NoResponse EXCEPT !.status = 404, !.ctype = "text/plain",
                                   !.body = <<"404 page not found">>, !.written = TRUE]

RedirectTo(path) == [NoResponse EXCEPT !.status = 301, !.ctype = "text/html; charset=utf-8",
                                       !.body = <<"<a href=\"">> \o path \o <<"\">Moved Permanently</a>">>,
                                       !.written = TRUE]

ginNoRoute ==
    /\ GinServes("")
    /\ LET p == req.path
       IN  IF /\ req.method = "GET" /\ Len(p) > 1 /\ p[Len(p)] = "/"
              /\ GinRoute(SubSeq(p, 1, Len(p) - 1)) # ""
           THEN Respond(RedirectTo(SubSeq(p, 1, Len(p) - 1)))
           ELSE Respond(NotFoundPage)

\* v0HegelMetadataHandler of the first revision, called again for another
\* router group: it assigns its clientData argument to the package variable
\* that the handlers of every group read.
v0HegelMetadataHandlerV1 ==
    /\ mount = "ginV1"
    /\ client' \in Clients
    /\ UNCHANGED <<mount, db, phase, req, route, resp, model, healthy, serve>>

macHandlerV1 ==
    /\ mount = "ginV1" /\ Serving /\ route = "macHandler"
    /\ \E order \in MapOrders : Respond(GinTrace(macRunV1(req, order), getHardware(req)))

EC2MetadataHandler ==
    /\ mount = "ec2" /\ Serving /\ route = "EC2MetadataHandler"
    /\ Respond(EC2MetadataRun(req))

HegelMetadataHandler ==
    /\ mount = "hegel" /\ Serving /\ route = "HegelMetadataHandler"
    /\ Respond(HegelMetadataRun(req))

HealthCheckHandler ==
    /\ mount = "ec2" /\ Serving /\ route = "HealthCheckHandler"
    /\ \E writeFails \in BOOLEAN : Respond(HealthCheckRun(healthy, writeFails))

VersionHandler ==
    /\ mount = "ec2" /\ Serving /\ route = "VersionHandler"
    /\ \E writeFails \in BOOLEAN : Respond(VersionRun(writeFails))

\* promhttp.Handler() and SubscriptionsHandler, whose code is outside this
\* source: each answers its route with a response of its own.
otherHandlers ==
    /\ mount = "ec2" /\ Serving /\ route \in {"promhttp.Handler", "SubscriptionsHandler"}
    /\ Respond(Write(NoResponse, <<route>>))

\* GetMetadataHandler(logger, client, filter, model), as registerCustomEndpoints
\* mounts it on the mux for each custom endpoint.
GetMetadataHandler ==
    /\ mount \in {"ec2", "custom"} /\ Serving
    /\ \E i \in DOMAIN customEndpoints :
          /\ route = "GetMetadataHandler" /\ req.path = customEndpoints[i][1]
          /\ Respond(GetMetadataRun(req, customEndpoints[i][2], model))

\* http.ServeMux's answer to a path no pattern matches
muxNotFound ==
    /\ mount \in {"ec2", "hegel", "custom"} /\ Serving /\ route = ""
    /\ Respond([NoResponse EXCEPT !.status = 404, !.ctype = TextPlain,
                                  !.body = <<"404 page not found", "\n">>, !.written = TRUE])

\* What answers: the /v0 router of api.go ("gin"), its first version
\* ("ginV1"), the legacy handler under /2009-04-04 ("ec2"), or the
\* query-driven handler under /v0 ("hegel"), or the handler of a custom
\* endpoint ("custom").
Mounts == {"gin", "ginV1", "ec2", "hegel", "custom"}

Backends(m) ==
    Failures
    \cup {Found(r) : r \in CASE m = "gin" -> GinRecords
                            [] m = "ec2" -> EC2Records
                            [] OTHER -> HegelRecords}

Requests(m) ==
    CASE m = "gin" -> GinRequests
      [] m = "ginV1" -> GinV1Requests
      [] m = "ec2" -> EC2Requests
      [] m = "hegel" -> HegelRequests
      [] m = "custom" -> CustomRequests

\* mux.Handle(prefix + "/", h) and mux.Handle(prefix, h)
MuxMatches(prefix, path) == path = prefix \/ HasPrefix(path, prefix \o <<"/">>)

\* The handler the mounted router hands a request to, "" for none.  The
\* /v0 router registers its routes for GET alone; the mux goes by the path.
\* The patterns Serve and registerCustomEndpoints register on the mux when
\* defaultAPI is "equinix": pattern, whether it ends in "/" and so matches
\* the paths below it, and handler.
MuxPatterns ==
    <<<<Path(<<Seg("metrics")>>), FALSE, "promhttp.Handler">>,
      <<Path(<<Seg("_packet"), Seg("healthcheck")>>), FALSE, "HealthCheckHandler">>,
      <<Path(<<Seg("_packet"), Seg("version")>>), FALSE, "VersionHandler">>,
      <<EC2Prefix \o <<"/">>, TRUE, "EC2MetadataHandler">>,
      <<EC2Prefix, FALSE, "EC2MetadataHandler">>,
      <<Path(<<Seg("subscriptions")>>) \o <<"/">>, TRUE, "SubscriptionsHandler">>,
      <<Path(<<Seg("subscriptions")>>), FALSE, "SubscriptionsHandler">>>>
    \o [i \in DOMAIN customEndpoints |-> <<customEndpoints[i][1], FALSE, "GetMetadataHandler">>]

\* http.ServeMux: the handler of the pattern that matches the path.
MuxRoute(path) ==
    LET hits == {i \in DOMAIN MuxPatterns :
                   IF MuxPatterns[i][2] THEN HasPrefix(path, MuxPatterns[i][1])
                   ELSE path = MuxPatterns[i][1]}
    IN  IF hits = {} THEN "" ELSE MuxPatterns[CHOOSE i \in hits : TRUE][3]

RouteOf(m, r) ==
    LET path == r.path
    IN
    CASE m \in {"gin", "ginV1"} -> IF r.method = "GET" THEN GinRoute(path) ELSE ""
      [] m \in {"ec2", "custom"} -> MuxRoute(path)
      [] m = "hegel" -> IF MuxMatches(V0Prefix, path) THEN "HegelMetadataHandler" ELSE ""

Receive ==
    /\ Listening(serve)
    /\ phase = "idle"
    /\ req' \in Requests(mount)
    /\ route' = RouteOf(mount, req')
    /\ phase' = "pending"
    /\ resp' = NoResponse
    /\ UNCHANGED <<mount, db, client, model, healthy, serve>>

\* Between requests the hardware source may come to hold something else for
\* the address: every lookup asks it anew.
BackendChanges ==
    /\ phase = "idle"
    /\ db' \in Backends(mount) \ {db}
    /\ UNCHANGED <<mount, phase, req, route, resp, client, model, healthy, serve>>

Reset ==
    /\ phase = "done"
    /\ phase' = "idle"
    /\ req' = NoRequest
    /\ route' = ""
    /\ resp' = NoResponse
    /\ UNCHANGED <<mount, db, client, model, healthy, serve>>

Init ==
    /\ mount \in Mounts
    /\ db \in Backends(mount)
    /\ phase = "idle"
    /\ req = NoRequest
    /\ route = ""
    /\ resp = NoResponse
    /\ client = clientData
    /\ model \in IF mount = "custom" THEN DataModels ELSE {TinkServer}
    /\ healthy \in IF mount = "ec2" THEN BOOLEAN ELSE {TRUE}
    /\ serve = ServerUp

Next ==
    \/ Receive
    \/ BackendChanges
    \/ Reset
    \/ userdataHandler
    \/ metadataHandler
    \/ diskHandler
    \/ diskIndexHandler
    \/ sshHandler
    \/ sshIndexHandler
    \/ hostnameHandler
    \/ gatewayHandler
    \/ macHandler
    \/ ipv4Handler
    \/ ipv4IndexHandler
    \/ ipv4IPHandler
    \/ ipv4NetmaskHandler
    \/ ipv6Handler
    \/ ipv6IndexHandler
    \/ ipv6IPHandler
    \/ ipv6NetmaskHandler
    \/ ginNoRoute
    \/ v0HegelMetadataHandlerV1
    \/ macHandlerV1
    \/ EC2MetadataHandler
    \/ HegelMetadataHandler
    \/ GetMetadataHandler
    \/ HealthCheckHandler
    \/ VersionHandler
    \/ otherHandlers
    \/ muxNotFound

Spec == Init /\ [][Next]_vars

\* A call of Serve from its first statement, with defaultAPI "equinix" and
\* the custom endpoints on the mux.
ServeInit ==
    /\ mount = "custom"
    /\ db \in Backends(mount)
    /\ phase = "idle"
    /\ req = NoRequest
    /\ route = ""
    /\ resp = NoResponse
    /\ client = clientData
    /\ model \in DataModels
    /\ healthy = TRUE
    /\ serve \in ServeCalls

ServeNext ==
    \/ registerCustomEndpoints
    \/ xffHTTPHandler
    \/ ListenAndServe
    \/ ListenAndServeReturns
    \/ ctxCancel
    \/ closeGoroutine
    \/ Receive
    \/ BackendChanges
    \/ Reset
    \/ GetMetadataHandler
    \/ muxNotFound

\* The statements of Serve and of its goroutine run when they can; nothing
\* obliges the caller to cancel ctx or a client to send a request.
ServeSpec ==
    /\ ServeInit
    /\ [][ServeNext]_vars
    /\ WF_vars(registerCustomEndpoints)
    /\ WF_vars(xffHTTPHandler)
    /\ WF_vars(ListenAndServe)
    /\ WF_vars(ListenAndServeReturns)
    /\ WF_vars(closeGoroutine)

\* --------------------------------------------------------------- properties

Answered == phase = "done"

\* The routes of the mux that serve no metadata: they look no hardware up.
ServiceRoutes == {"promhttp.Handler", "HealthCheckHandler", "VersionHandler", "SubscriptionsHandler"}

\* A handler that serves metadata took the request.
MetadataRouted == route \notin ServiceRoutes \cup {""}

\* The client address resolves to a record that exports and decodes.
LookupSucceeds == db.kind = "ok" /\ req.method = "GET" /\ req.remoteAddr = RemoteAddr

\* The request path without its trailing slashes.
TrimmedPath == TrimRight(req.path, "/")

MACRoutes ==
    {"macHandler", "ipv4Handler", "ipv6Handler", "ipv4IndexHandler", "ipv6IndexHandler",
     "ipv4IPHandler", "ipv4NetmaskHandler", "ipv6IPHandler", "ipv6NetmaskHandler"}

IndexRoutes ==
    {"diskIndexHandler", "sshIndexHandler", "ipv4IndexHandler", "ipv6IndexHandler",
     "ipv4IPHandler", "ipv4NetmaskHandler", "ipv6IPHandler", "ipv6NetmaskHandler"}

\* No interface of the record has the MAC the path names.
NoInterfaceHasMAC ==
    \A i \in DOMAIN db.rec.interfaces : db.rec.interfaces[i].mac # ParamOf(req.path, "mac")

UnmatchedMAC ==
    /\ mount = "gin" /\ Answered /\ route \in MACRoutes
    /\ LookupSucceeds
    /\ NoInterfaceHasMAC

\* C1: on every MAC-qualified route of the /v0 router, when the lookup
\* succeeds and no interface of the record has the path's MAC, the answer is
\* 204 with an empty body (and so never 404).
C1_UnmatchedMACIs204 == UnmatchedMAC => resp.status = 204 /\ resp.body = <<>>

\* C1 happens: a leaf below a MAC that none of the record's interfaces has,
\* on a record that has interfaces, was answered.
C1_Witness ==
    /\ UnmatchedMAC
    /\ route = "ipv4IPHandler"
    /\ db.rec.interfaces # <<>>
    /\ AtoiOK(ParamOf(req.path, "index"))
    /\ resp.status = 204

\* C2: whatever the endpoint and the Accept header, a request whose
\* hardware lookup fails is answered 404.
C2_LookupFailureIs404 ==
    (/\ Answered /\ MetadataRouted
     /\ req.method = "GET" /\ req.remoteAddr = RemoteAddr
     /\ db.kind = "none")
        => resp.status = 404

\* C3: on every route with an index segment, when the lookup succeeds and
\* the MAC of the path (if it has one) matches, an index that is no number
\* is answered 400.
C3_NonNumericIndexIs400 ==
    (/\ mount = "gin" /\ Answered /\ route \in IndexRoutes
     /\ LookupSucceeds
     /\ route \in MACRoutes => ~NoInterfaceHasMAC
     /\ ~AtoiOK(ParamOf(req.path, "index")))
        => resp.status = 400

\* The number of items the index of the route counts.
ItemCount == IF route = "diskIndexHandler" THEN Len(db.rec.disks) ELSE Len(db.rec.ssh_keys)

\* C4: a numeric index below 0 or not below the number of disks (of keys) is
\* answered with an empty body and no error status.
C4_OutOfRangeIsEmptyNotError ==
    (/\ mount = "gin" /\ Answered /\ route \in {"diskIndexHandler", "sshIndexHandler"}
     /\ LookupSucceeds
     /\ AtoiOK(ParamOf(req.path, "index"))
     /\ LET index == Atoi(ParamOf(req.path, "index")) IN index < 0 \/ index >= ItemCount)
        => resp.status \in {200, 204} /\ resp.body = <<>>

\* The decimal indices 0 .. n-1, one per line.
IndexLines(n) == [i \in 1..n |-> Itoa(i - 1)]

\* The request asks for the list of disks (of keys), through the /v0 router
\* or through the query-driven handler.
ListsDisks ==
    \/ mount = "gin" /\ route = "diskHandler"
    \/ mount = "hegel" /\ TrimmedPath = V0Prefix \o Path(<<Seg("meta-data"), Seg("disks")>>)

ListsKeys ==
    \/ mount = "gin" /\ route = "sshHandler"
    \/ mount = "hegel"
       /\ TrimmedPath = V0Prefix \o Path(<<Seg("meta-data"), Seg("ssh-public-keys")>>)

\* C5: the list of disks (of keys) of a record with n of them is the lines
\* 0, 1, ..., n-1 in this order and nothing else; it is empty for n = 0.
C5_ListingIsIndices ==
    (Answered /\ LookupSucceeds) =>
        /\ ListsDisks => resp.status = 200 /\ Lines(resp.body) = IndexLines(Len(db.rec.disks))
        /\ ListsKeys => resp.status = 200 /\ Lines(resp.body) = IndexLines(Len(db.rec.ssh_keys))

\* C5 happens: a record with two disks was listed as the lines 0 and 1, and
\* these are not the devices of the disks.
C5_Witness ==
    /\ Answered /\ LookupSucceeds /\ ListsDisks
    /\ Len(db.rec.disks) = 2
    /\ Lines(resp.body) = <<Itoa(0), Itoa(1)>>
    /\ Lines(resp.body) # [i \in 1..2 |-> db.rec.disks[i].device]

\* The members of a sequence, each once, in the order of their first place.
RECURSIVE FirstSeen(_, _)
FirstSeen(fs, seen) ==
    IF fs = <<>> THEN <<>>
    ELSE IF Head(fs) \in seen THEN FirstSeen(Tail(fs), seen)
    ELSE <<Head(fs)>> \o FirstSeen(Tail(fs), seen \cup {Head(fs)})

FamilyNames(fs) == [i \in DOMAIN fs |-> <<"ipv">> \o Itoa(fs[i])]

\* The families a listing of the matched interface has to name.
FamiliesOfInterfaces ==
    LET valid == validInterfaces(db.rec, ParamOf(req.path, "mac"))
    IN  FamilyNames(FirstSeen([i \in DOMAIN valid |-> valid[i].family], {}))

FamiliesOfAddresses ==
    FamilyNames(FirstSeen([i \in DOMAIN db.rec.addresses |-> db.rec.addresses[i].address_family], {}))

\* C6: the listing at /meta-data/:mac of a matched interface names the
\* families that occur among its addresses, each once, in first-seen order.
C6_FamilyListingIsFamiliesPresent ==
    (Answered /\ LookupSucceeds) =>
        /\ (mount = "gin" /\ route = "macHandler" /\ ~NoInterfaceHasMAC)
              => Lines(resp.body) = FamiliesOfInterfaces
        /\ (mount = "ginV1" /\ route = "macHandler" /\ ParamOf(req.path, "mac") = db.rec.id)
              => Lines(resp.body) = FamiliesOfAddresses
        /\ (mount = "hegel"
            /\ req.path = V0Prefix \o Path(<<Seg("meta-data"), db.rec.id>>))
              => Lines(resp.body) = FamiliesOfAddresses

\* C7: answering the same request again, against the same record, gives the
\* same response.
C7_ListingOrderStable == [][(Answered /\ phase' = "done") => resp' = resp]_vars

\* The names the legacy listing has to show, in byte order.
LegacyListing(spot) ==
    [i \in 1..11 |-> <<(<<"facility", "hostname", "instance-id", "iqn", "local-hostname",
                          "local-ipv4", "operating-system", "plan", "public-ipv4",
                          "public-ipv6", "public-keys">>)[i]>>]
    \o (IF spot THEN <<<<"spot">>>> ELSE <<>>)
    \o <<<<"tags">>>>

AsksLegacyListing ==
    /\ mount = "ec2" /\ Answered /\ LookupSucceeds
    /\ TrimmedPath = EC2Prefix \o Path(<<Seg("meta-data")>>)

\* C8: the legacy listing at /meta-data shows "spot" exactly when the
\* record has spot data, shows every other name for every record, and is
\* sorted.
C8_SpotListedIffPresent == AsksLegacyListing => Lines(resp.body) = LegacyListing(~db.rec.spot.nil)

\* C8 happens: a record with spot data was listed, "spot" between
\* "public-keys" and "tags".
C8_Witness ==
    /\ AsksLegacyListing
    /\ ~db.rec.spot.nil
    /\ Len(Lines(resp.body)) = 13
    /\ Lines(resp.body)[12] = <<"spot">>

AsksRoot ==
    /\ mount \in {"gin", "hegel"} /\ Answered /\ LookupSucceeds
    /\ req.path = V0Prefix \o Path(<<Seg("meta-data")>>)

\* The static listings of the two handlers of the root.
RootListings ==
    {StaticListing,
     <<"disks", "\n", "gateway", "\n", "hostname", "\n", "local-ipv4", "\n", "netmask", "\n",
       "public-ipv4", "\n", "public-ipv6">>}

\* C9: the root /v0/meta-data answers Accept: application/json with the
\* object of the non-empty ones of interfaces, disks, ssh_keys, hostname and
\* gateway, as application/json; any other Accept with the static listing.
C9_RootNegotiation ==
    AsksRoot =>
        /\ req.accept = <<JSONType>> =>
              /\ resp.ctype = JSONType
              /\ resp.body = MarshalMetadataJSON([Disks |-> db.rec.disks,
                                                  Gateway |-> db.rec.gateway,
                                                  Hostname |-> db.rec.hostname,
                                                  SSHKeys |-> db.rec.ssh_keys,
                                                  Interfaces |-> db.rec.interfaces])
        /\ (\A i \in DOMAIN req.accept : req.accept[i] # JSONType) =>
              resp.body \in RootListings

\* The path has one of the shapes its schema declares.
Declared ==
    CASE mount = "ec2" ->
            /\ HasPrefix(req.path, EC2Prefix)
            /\ ~Lookup(ec2Filters, TrimPrefix(TrimmedPath, EC2Prefix)).err
      [] mount = "hegel" ->
            /\ HasPrefix(req.path, V0Prefix)
            /\ \/ GinRoute(TrimmedPath) # ""
               \/ ~Lookup(hegelFilters, TrimPrefix(TrimmedPath, V0Prefix)).err
      [] OTHER -> GinRoute(TrimmedPath) # ""

\* C10: a path that is none of the declared shapes of its schema is
\* answered 404.
C10_UndeclaredPathIs404 ==
    (/\ mount \in {"gin", "ec2", "hegel"} /\ Answered /\ LookupSucceeds
     /\ route \notin ServiceRoutes \cup {"GetMetadataHandler"}
     /\ ~Declared)
        => resp.status = 404

\* The address the routed handler extracts from the request.
ExtractedAddress ==
    IF mount \in {"gin", "ginV1"} THEN GinClientIP(req) ELSE getIPFromRequest(req)

\* A handler of the metadata tree served the request.
Handled == Answered /\ MetadataRouted /\ req.method = "GET"

\* C11: a metadata handler that extracts an empty address returns without a
\* hardware lookup and without a response body; when the remote address is
\* host:port, the lookup it makes is of the host, the port stripped.
C11_EmptyAddressIsSilent ==
    /\ (Handled /\ ExtractedAddress = <<>>) => (resp.lookups = <<>> /\ resp.body = <<>>)
    /\ (Handled /\ req.remoteAddr = RemoteAddr) =>
           \A i \in DOMAIN resp.lookups : resp.lookups[i].ip = ClientIP

\* The handler's lookup found the caller's hardware, and the record it found
\* cannot be exported or decoded.
ExportFailsAfterLookup ==
    /\ Handled /\ ~req.cancelled
    /\ resp.lookups = <<[client |-> clientData, ip |-> ClientIP]>>
    /\ db.kind \in {"noexport", "malformed"}

\* C12: when the lookup succeeds and the record's export or decoding fails,
\* the status is a server error (5xx): not the 404 of a failed lookup, and
\* never a 200.
C12_ExportFailureIs5xx == ExportFailsAfterLookup => resp.status \in 500..599

\* C13: request handling shares no mutable state: nothing a registration
\* step or another request's handling writes is read by a handler, so every
\* lookup a handler makes is on the client its route was registered with,
\* whatever was registered in the meantime.
C13_NoSharedMutableState ==
    Handled => \A i \in DOMAIN resp.lookups : resp.lookups[i].client = clientData

\* C14: when the caller's request is cancelled before the hardware lookup
\* completes, the lookup is given up and the handler goes on to no path
\* resolution and no query evaluation: it reads no record for that request.
C14_CancelledRequestIsAbandoned == (Handled /\ req.cancelled) => ~resp.evaluated

\* Whether the context of the handler's lookup is cancelled.
ContextCancelled ==
    IF mount \in {"gin", "ginV1"} THEN GinContextCancelled(req) ELSE req.cancelled

\* What the hardware source answers now to the lookup a response records.
LookupNow(call) == ByIP(call.client, ContextCancelled, call.ip)

\* C15: a request makes at most one hardware lookup; a lookup that fails is
\* not tried again and ends the request, with 404 and no record read; and a
\* response made of record data comes from one lookup, of this request's
\* address, that the hardware source answers with a record as it now is.
C15_OneLookupPerRequest ==
    Answered =>
        /\ Len(resp.lookups) <= 1
        /\ \A i \in DOMAIN resp.lookups :
              /\ resp.lookups[i].ip = ExtractedAddress
              /\ LookupFailed(LookupNow(resp.lookups[i])) =>
                     (~resp.evaluated /\ resp.status = 404)
        /\ resp.evaluated =>
              (Len(resp.lookups) = 1 /\ ~LookupFailed(LookupNow(resp.lookups[1])))

\* A request whose one lookup failed and was answered 404.
C15_Witness ==
    /\ Answered /\ Len(resp.lookups) = 1 /\ resp.status = 404 /\ ~resp.evaluated
    /\ LookupFailed(LookupNow(resp.lookups[1]))

\* C16: whatever the defaultAPI setting, the running server routes a request
\* under /2009-04-04 to the legacy schema's handler and a request for a path
\* of the /v0 schema to that schema's handler.
C16_BothSchemasRouted ==
    (Answered /\ req.method = "GET") =>
        /\ MuxMatches(EC2Prefix, req.path) => route = "EC2MetadataHandler"
        /\ GinRoute(req.path) # "" => route \in {GinRoute(req.path), "HegelMetadataHandler"}

\* The scalar leaves of the two schemas: the tree that serves the leaf, its
\* path, and the field of the record it stands for.
ScalarLeaves(rec) ==
    LET v0(segs) == V0Prefix \o Path(segs)
        ec2(segs) == EC2Prefix \o Path(<<Seg("meta-data")>> \o segs)
        os(name) == ec2(<<Seg("operating-system"), Seg(name)>>)
    IN  <<<<"gin", v0(<<Seg("meta-data"), Seg("hostname")>>), Some(rec.hostname)>>,
          <<"gin", v0(<<Seg("meta-data"), Seg("gateway")>>), Some(rec.gateway)>>,
          <<"gin", v0(<<Seg("user-data")>>), rec.userdata>>,
          <<"ec2", EC2Prefix \o Path(<<Seg("user-data")>>), rec.userdata>>,
          <<"ec2", ec2(<<Seg("instance-id")>>), Some(rec.id)>>,
          <<"ec2", ec2(<<Seg("hostname")>>), Some(rec.hostname)>>,
          <<"ec2", ec2(<<Seg("local-hostname")>>), Some(rec.hostname)>>,
          <<"ec2", ec2(<<Seg("iqn")>>), Some(rec.iqn)>>,
          <<"ec2", ec2(<<Seg("plan")>>), Some(rec.plan)>>,
          <<"ec2", ec2(<<Seg("facility")>>), Some(rec.facility)>>,
          <<"ec2", os("slug"), Some(rec.os.slug)>>,
          <<"ec2", os("distro"), Some(rec.os.distro)>>,
          <<"ec2", os("version"), Some(rec.os.version)>>,
          <<"ec2", os("image_tag"), Some(rec.os.image_tag)>>,
          <<"ec2", ec2(<<Seg("operating-system"), Seg("license_activation"), Seg("state")>>),
            Some(rec.os.license_state)>>,
          <<"ec2", ec2(<<Seg("spot"), Seg("termination-time")>>), rec.spot>>>>

\* The request is for the i-th scalar leaf, whose field holds a string.
AsksLeaf(i) ==
    LET leaf == ScalarLeaves(db.rec)[i]
    IN  mount = leaf[1] /\ TrimmedPath = leaf[2] /\ ~leaf[3].nil

\* C17: a scalar leaf of either schema, asked of a record whose field holds
\* a literal string, is answered 200 with exactly that literal as the body.
C17_LeafRoundTrip ==
    (Handled /\ LookupSucceeds /\ ~req.cancelled) =>
        \A i \in DOMAIN ScalarLeaves(db.rec) :
            AsksLeaf(i) =>
                (resp.status = 200 /\ resp.body = ScalarLeaves(db.rec)[i][3].v)

\* A leaf of the legacy schema answered for a field that ends in a newline.
C17_Witness ==
    /\ Handled /\ LookupSucceeds /\ ~req.cancelled /\ mount = "ec2"
    /\ \E i \in DOMAIN ScalarLeaves(db.rec) :
          AsksLeaf(i) /\ ScalarLeaves(db.rec)[i][3].v = <<"a", "\n">>
    /\ resp.body = <<"a", "\n">>

\* The filter table of the mounted schema, <<>> for the /v0 router.
TableOf == CASE mount = "ec2" -> ec2Filters [] mount = "hegel" -> hegelFilters [] OTHER -> <<>>

\* The request path below the prefix of the mounted schema.
QueryPath == TrimPrefix(TrimmedPath, IF mount = "ec2" THEN EC2Prefix ELSE V0Prefix)

\* The directories of each schema: the paths answered with a listing of names.
Directories ==
    LET md == Path(<<Seg("meta-data")>>)
        os == md \o Path(<<Seg("operating-system")>>)
    IN  CASE mount = "ec2" -> {<<>>, md, os, os \o Path(<<Seg("license_activation")>>),
                               md \o Path(<<Seg("spot")>>)}
          [] mount = "hegel" -> {<<>>, md}
          [] mount = "gin" -> {md}
          [] OTHER -> {}

\* A listing was served: a directory, asked for as text.
ListingServed ==
    /\ Handled /\ LookupSucceeds /\ ~req.cancelled
    /\ HasPrefix(req.path, IF mount = "ec2" THEN EC2Prefix ELSE V0Prefix)
    /\ QueryPath \in Directories
    /\ ~returnJSONObject(req.accept)

\* The path below the prefix resolves in the mounted schema.
Resolves(q) ==
    CASE mount = "ec2" -> ~Lookup(ec2Filters, q).err
      [] mount = "hegel" ->
            LET f == processHegelQuery(V0Prefix \o q, FALSE) IN ~f.err /\ ~f.panic
      [] OTHER -> GinRoute(V0Prefix \o q) # ""

\* The names the table declares directly below a path.
DeclaredChildren(q) ==
    {TrimPrefix(TableOf[i][1], q \o <<"/">>) :
        i \in {j \in DOMAIN TableOf :
                 /\ HasPrefix(TableOf[j][1], q \o <<"/">>)
                 /\ Count(TrimPrefix(TableOf[j][1], q \o <<"/">>), "/") = 0}}

\* C18: in each schema every name a directory listing gives resolves below
\* that directory, every path declared directly below a directory is in its
\* listing, and a path has one plan, the same each time it is resolved.
C18_ListingsAndDeclarationsAgree ==
    ListingServed =>
        /\ resp.status = 200
        /\ \A i \in DOMAIN Lines(resp.body) :
              Resolves(QueryPath \o <<"/">> \o Lines(resp.body)[i])
        /\ \A name \in DeclaredChildren(QueryPath) :
              \E i \in DOMAIN Lines(resp.body) : Lines(resp.body)[i] = name
        /\ Cardinality({i \in DOMAIN TableOf : TableOf[i][1] = QueryPath}) <= 1

\* The pieces of the request path: "", v0, meta-data, mac, ipvN, index, leaf.
Pieces == Split(TrimmedPath, "/")

\* The request is for /v0/meta-data/:mac/ipvN/:index/ip or /netmask, with a
\* numeric index.
AsksIndexedLeaf ==
    /\ mount \in {"gin", "hegel"} /\ Handled /\ LookupSucceeds /\ ~req.cancelled
    /\ Len(Pieces) = 7
    /\ SubSeq(Pieces, 1, 3) = <<<<>>, Seg("v0"), Seg("meta-data")>>
    /\ Pieces[5] \in {IPv4Seg, IPv6Seg}
    /\ IsNumber(Pieces[6])
    /\ Pieces[7] \in {Seg("ip"), Seg("netmask")}

\* The entries of the record that match the MAC and the family of the path,
\* in record order: interfaces for the router, addresses of the instance for
\* the query-driven handler.
EntriesOfPath ==
    LET family == IF Pieces[5] = IPv4Seg THEN 4 ELSE 6
    IN  IF mount = "gin"
        THEN SelectSeq(db.rec.interfaces, LAMBDA n : n.mac = Pieces[4] /\ n.family = family)
        ELSE SelectSeq(db.rec.addresses, LAMBDA a : a.address_family = family)

MACMatches ==
    IF mount = "gin" THEN \E i \in DOMAIN db.rec.interfaces : db.rec.interfaces[i].mac = Pieces[4]
    ELSE db.rec.id = Pieces[4]

\* C19: for a matching MAC and a numeric index i, the /ip and /netmask leaves
\* give the address and the netmask of the i-th entry, counted from 0 in
\* record order, among the entries of that MAC and family; an index that is
\* negative or not below their number gives 204 with an empty body.
C19_IndexedLeaf ==
    (AsksIndexedLeaf /\ MACMatches) =>
        LET i == Atoi(Pieces[6])
        IN  IF i >= 0 /\ i < Len(EntriesOfPath)
            THEN /\ resp.status = 200
                 /\ resp.body = IF Pieces[7] = Seg("ip") THEN EntriesOfPath[i + 1].address
                                ELSE EntriesOfPath[i + 1].netmask
            ELSE resp.status = 204 /\ resp.body = <<>>

\* The custom-endpoint handler answered with the record of the caller.
CustomServed ==
    /\ mount = "custom" /\ Handled /\ LookupSucceeds /\ ~req.cancelled
    /\ route = "GetMetadataHandler"

\* C20: the custom-endpoint handler applies the endpoint's filter to the
\* exported record only when the data model is TinkServer; under any other
\* data model the body is the exported record, unfiltered.
C20_FilterOnlyForTinkServer ==
    CustomServed =>
        /\ resp.status = 200
        /\ resp.body = IF model = TinkServer
                       THEN filterMetadata(db, customEndpoints[1][2]).out
                       ELSE Export(db)

\* The request is for the spot branch of the legacy schema.
AsksSpotBranch ==
    /\ mount = "ec2" /\ Handled /\ LookupSucceeds /\ ~req.cancelled
    /\ TrimmedPath \in {EC2Prefix \o Path(<<Seg("meta-data"), Seg("spot")>>),
                       EC2Prefix \o Path(<<Seg("meta-data"), Seg("spot"),
                                           Seg("termination-time")>>)}

\* C21: the spot branch of the legacy schema exists only for a record that
\* has spot data: for a record without it, neither /meta-data/spot nor
\* /meta-data/spot/termination-time is answered 200.
C21_SpotBranchOnlyWithSpotData ==
    (AsksSpotBranch /\ db.rec.spot.nil) => resp.status # 200

\* The first segment after /v0/meta-data is MAC-shaped: five colons in it.
FirstSegmentIsMAC ==
    /\ Len(Pieces) >= 4
    /\ SubSeq(Pieces, 1, 3) = <<<<>>, Seg("v0"), Seg("meta-data")>>
    /\ Count(Pieces[4], ":") = 5

\* The query-driven handler served a path that none of the branches before
\* the MAC test of processHegelQuery takes.
ReachesMACTest ==
    /\ mount = "hegel" /\ Handled /\ HasPrefix(req.path, V0Prefix)
    /\ ~Contains(QueryPath, <<"ssh-public-keys", "/">>)
    /\ ~Contains(QueryPath, <<"disks", "/">>)
    /\ ~(QueryPath = Path(<<Seg("meta-data")>>) /\ returnJSONObject(req.accept))

\* C22: a path of the /v0 schema is treated as MAC-qualified exactly when
\* its first segment after /meta-data is MAC-shaped, five colons within that
\* one segment, and the MAC selector is that segment; colons in other
\* segments make no path MAC-qualified.
C22_MACQualification ==
    ReachesMACTest =>
        LET f == processHegelQuery(req.path, returnJSONObject(req.accept))
        IN  /\ isMACAddress(QueryPath) <=> FirstSegmentIsMAC
            /\ (isMACAddress(QueryPath) /\ ~f.err /\ ~f.panic /\ f.filter.a # <<>>) =>
                   f.filter.a[1] = Pieces[4]

LeafRoutes == {"ipv4IPHandler", "ipv4NetmaskHandler", "ipv6IPHandler", "ipv6NetmaskHandler"}

\* An indexed leaf of the router was served for a caller with a record.
LeafServed == mount = "gin" /\ Answered /\ LookupSucceeds /\ route \in LeafRoutes

\* C23: on the leaves /meta-data/:mac/ipvN/:index/ip and /netmask the MAC is
\* checked before the index is parsed: a MAC that no interface has gets 204
\* even with a non-numeric index, a non-numeric index with a MAC that
\* matches gets 400, and 400 is given only when the MAC matches.
C23_MACCheckPrecedesIndex ==
    LeafServed =>
        /\ NoInterfaceHasMAC => (resp.status = 204 /\ resp.body = <<>>)
        /\ (~NoInterfaceHasMAC /\ ~AtoiOK(ParamOf(req.path, "index"))) => resp.status = 400
        /\ resp.status = 400 => ~NoInterfaceHasMAC

\* A leaf asked with a non-numeric index and a MAC no interface has.
C23_Witness ==
    /\ LeafServed /\ NoInterfaceHasMAC /\ ~AtoiOK(ParamOf(req.path, "index"))
    /\ resp.status = 204

\* The listing the router gives, for the record and caller of the request,
\* of the directory above the indexed path of the request.
ListingAbove ==
    LET above(segs) == [req EXCEPT !.path = V0Prefix \o Path(<<Seg("meta-data")>> \o segs)]
        mac == ParamOf(req.path, "mac")
    IN  CASE route = "diskIndexHandler" -> diskRun(above(<<Seg("disks")>>))
          [] route = "sshIndexHandler" -> sshRun(above(<<Seg("ssh-public-keys")>>))
          [] route = "ipv4IPHandler" -> ipvNRun(above(<<mac, IPv4Seg>>), 4)
          [] route = "ipv6IPHandler" -> ipvNRun(above(<<mac, IPv6Seg>>), 6)

\* The index i is one of the lines of the listing.
Listed(i) == \E k \in DOMAIN Lines(ListingAbove.body) : Lines(ListingAbove.body)[k] = Itoa(i)

\* An indexed path of the router was served with a numeric index; below a
\* MAC, the MAC is one the record has.
IndexedServed ==
    /\ mount = "gin" /\ Answered /\ LookupSucceeds
    /\ route \in {"diskIndexHandler", "sshIndexHandler", "ipv4IPHandler", "ipv6IPHandler"}
    /\ AtoiOK(ParamOf(req.path, "index"))
    /\ route \in {"ipv4IPHandler", "ipv6IPHandler"} => ~NoInterfaceHasMAC

\* C24: listings and indexed paths agree: an index i is in the listing of
\* /meta-data/disks exactly when /meta-data/disks/i is answered 200, the
\* same for ssh-public-keys, and for a MAC the record has i is in the listing
\* of /meta-data/:mac/ipvN exactly when /meta-data/:mac/ipvN/i/ip is
\* answered 200.
C24_ListingsAgreeWithLeaves ==
    IndexedServed =>
        (Atoi(ParamOf(req.path, "index")) >= 0 /\ Listed(Atoi(ParamOf(req.path, "index"))))
            <=> resp.status = 200

\* The second disk of a record, listed and served.
C24_Witness ==
    /\ IndexedServed /\ route = "diskIndexHandler"
    /\ Atoi(ParamOf(req.path, "index")) = 1 /\ Listed(1) /\ resp.status = 200

\* ------------------------------------------------------------------ C25, C26

\* Serve hands the server the mux only when defaultAPI is "equinix"
\* (mounts "ec2" and "custom"); otherwise it hands it the gin router
\* (mount "gin"), on which none of the mux's patterns is registered.
RegisteredOnMux == MuxRoute(req.path) # ""

\* C25: every route registered on the mux in Serve (/metrics,
\* /_packet/healthcheck, /_packet/version, /subscriptions and the custom
\* endpoints) reaches its handler through the handler the server serves,
\* for every value of defaultAPI: an answered GET to a registered path was
\* routed to the handler registered for it.
C25_MuxRoutesReachable ==
    (mount \in {"gin", "ec2", "custom"} /\ Answered /\ req.method = "GET"
        /\ req.path \in ServicePaths /\ RegisteredOnMux)
        => route = MuxRoute(req.path)

\* C26: the response of HealthCheckHandler carries status 500 whenever the
\* hardware client reports unhealthy, and 200 only when it is healthy.
C26_UnhealthyIs500 ==
    (Answered /\ route = "HealthCheckHandler")
        => (resp.status = IF healthy THEN 200 ELSE 500)

\* ---------------------------------------------------------------------- C27

Returned == serve.pc = "returned"

CancelledWhileListening == serve.pc = "listening" /\ serve.ctxDone

\* C27: once ctx is cancelled while the server is listening, the server is
\* closed and Serve eventually returns; and when customEndpoints cannot be
\* parsed, Serve returns an error and the listener is never opened.
C27_ServeReturns ==
    /\ CancelledWhileListening ~> (Returned /\ serve.closed)
    /\ (~serve.parsable) ~> (Returned /\ serve.err # "")
    /\ [](~serve.parsable => ~serve.listened /\ serve.pc \notin {"ListenAndServe", "listening"})

\* Serve has returned ErrServerClosed after its context was cancelled under
\* an open listener.
C27_Witness ==
    /\ Returned /\ serve.listened /\ serve.ctxDone /\ serve.closed
    /\ serve.err = ErrServerClosed /\ serve.goroutine = "exited"

====
